---- MODULE Spec2Model ----
(***************************************************************************)
(* A model of ged, a Go implementation of the ed line editor.              *)
(*                                                                         *)
(* The editor keeps an append-only pool of lines (FileBuffer.buffer), a    *)
(* view (FileBuffer.file, a sequence of pool indices), a current address,  *)
(* a dirty flag and a mark table.  main() reads one command line at a      *)
(* time and hands it to run(), which resolves the address prefix, brackets *)
(* the handler with Start()/End() and dispatches on the command byte.      *)
(*                                                                         *)
(* Go strings are TLA+ strings; Go indices are 0-based and are kept        *)
(* 0-based here (At and Ch add the 1).  A Go error is a string, Nil being  *)
(* "no error".  A run-time panic of the Go program is the error Panic.     *)
(***************************************************************************)
EXTENDS Integers, Sequences, FiniteSets, TLC

VARIABLES
    buffer,     \* FileBuffer.buffer : the content pool
    file,       \* FileBuffer.file   : the view, a sequence of pool indices
    dirty,      \* FileBuffer.dirty
    addr,       \* FileBuffer.addr   : the current address (0-based)
    marks,      \* FileBuffer.marks  : mark name -> pool index
    undo,       \* the undo stack of snapshots
    cutBuf,     \* the cut register
    isNil,      \* the global `buffer` pointer is nil
    state,      \* the session state (fileName, lastErr, printErr, winSize)
    fs,         \* the file system: file name -> lines, or NoFile
    fSuppress,  \* the -s flag
    exit,       \* "running", "exited" (os.Exit) or "panicked"
    out,        \* what the last command line wrote to standard output
    steps,      \* the number of command lines read
    hist        \* history of the last command lines (for the properties)

vars == <<buffer, file, dirty, addr, marks, undo, cutBuf, isNil, state, fs,
          fSuppress, exit, out, steps, hist>>

----------------------------------------------------------------------------
(* Bounds of the model. *)

MaxSteps == 3       \* command lines read in the focused specifications
MaxStepsAll == 2    \* command lines read in the specification of all commands
MaxUndo == 1        \* snapshots kept on the undo stack (older ones are dead)
MaxScript == 5      \* command lines read in the specification of the example

----------------------------------------------------------------------------
(* Strings and slices. *)

Nil == ""
Panic == "panic"
ErrOOB == "line is out of bounds"
ErrINV == "invalid address"
NoFile == "ENOENT"

Min(a, b) == IF a < b THEN a ELSE b

\* s[i] for a Go string or slice s and a 0-based index i
At(s, i) == s[i + 1]
Ch(s, i) == SubSeq(s, i + 1, i + 1)
\* s[n:] and s[:n]
From(s, n) == SubSeq(s, n + 1, Len(s))
Upto(s, n) == SubSeq(s, 1, n)

Digits == {"0", "1", "2", "3", "4", "5", "6", "7", "8", "9"}
Lower == {"a", "b", "c", "d", "e", "f", "g", "h", "i", "j", "k", "l", "m",
          "n", "o", "p", "q", "r", "s", "t", "u", "v", "w", "x", "y", "z"}
Space == {" ", "\t"}

DigitVal(c) ==
    CASE c = "0" -> 0 [] c = "1" -> 1 [] c = "2" -> 2 [] c = "3" -> 3
      [] c = "4" -> 4 [] c = "5" -> 5 [] c = "6" -> 6 [] c = "7" -> 7
      [] c = "8" -> 8 [] c = "9" -> 9

\* length of the longest prefix of s made of characters of the set cs
RECURSIVE SpanLen(_, _)
SpanLen(s, cs) ==
    IF Len(s) > 0 /\ Ch(s, 0) \in cs THEN 1 + SpanLen(From(s, 1), cs) ELSE 0

\* strconv.Atoi of a string of digits
RECURSIVE Atoi(_)
Atoi(s) ==
    IF Len(s) = 0 THEN 0
    ELSE 10 * Atoi(Upto(s, Len(s) - 1)) + DigitVal(Ch(s, Len(s) - 1))

\* strings.Index(s, c) for a one-character c: 0-based, -1 if absent
RECURSIVE IndexOf(_, _)
IndexOf(s, c) ==
    IF Len(s) = 0 THEN -1
    ELSE IF Ch(s, 0) = c THEN 0
    ELSE LET i == IndexOf(From(s, 1), c) IN IF i = -1 THEN -1 ELSE i + 1

\* regexp.MatchString for a pattern without metacharacters: p occurs in s
Contains(s, p) ==
    \E i \in 0..(Len(s) - Len(p)) : SubSeq(s, i + 1, i + Len(p)) = p

----------------------------------------------------------------------------
(* FileBuffer.  A FileBuffer value is a record f of the seven fields.     *)

\* The mark names the command lines of the model use.  The Go map has no
\* entry for a name that was never set: that is the value NoMark here.
MarkNames == {"a", "b"}
NoMark == -1

FLen(f) == Len(f.file)

OOB(f, l) == l < 0 \/ l >= FLen(f)

\* f.buffer[f.file[line]]
Line(f, l) == At(f.buffer, At(f.file, l))

NewFileBuffer(in) ==
    [buffer |-> in,
     file   |-> [i \in 1..Len(in) |-> i - 1],
     dirty  |-> FALSE,
     addr   |-> 0,
     marks  |-> [n \in MarkNames |-> NoMark],
     undo   |-> <<>>,
     cutBuf |-> <<>>]

GetMust(f, l, set) ==
    [f |-> IF set THEN [f EXCEPT !.addr = l] ELSE f, line |-> Line(f, l)]

Get(f, r) ==
    IF OOB(f, r[1]) \/ OOB(f, r[2])
    THEN [f |-> f, lines |-> <<>>, e |-> ErrOOB]
    ELSE [f     |-> IF r[1] <= r[2] THEN [f EXCEPT !.addr = r[2]] ELSE f,
          lines |-> [k \in 1..(r[2] - r[1] + 1) |-> Line(f, r[1] + k - 1)],
          e     |-> Nil]

\* the inner loop of Delete: drop the first view slot holding pool index b
RemoveFirst(s, b) ==
    IF \E i \in 1..Len(s) : s[i] = b
    THEN LET i == CHOOSE j \in 1..Len(s) :
                      s[j] = b /\ \A k \in 1..(j - 1) : s[k] # b
         IN  SubSeq(s, 1, i - 1) \o SubSeq(s, i + 1, Len(s))
    ELSE s

RECURSIVE RemoveAll(_, _)
RemoveAll(s, bs) ==
    IF Len(bs) = 0 THEN s ELSE RemoveAll(RemoveFirst(s, Head(bs)), Tail(bs))

DeleteNoClamp(f, r) ==
    IF \E l \in r[1]..r[2] : OOB(f, l)
    THEN [f |-> f, e |-> ErrOOB]
    ELSE LET blines == [k \in 1..(r[2] - r[1] + 1) |-> At(f.file, r[1] + k - 1)]
             nfile  == RemoveAll(f.file, blines)
         IN  [f |-> [f EXCEPT !.file = nfile, !.dirty = TRUE,
                              !.addr = r[1] + 1],
              e |-> Nil]

\* Delete that also forgets the marks of the lines it removes
DeleteDropMarks(f, r) ==
    IF \E l \in r[1]..r[2] : OOB(f, l)
    THEN [f |-> f, e |-> ErrOOB]
    ELSE LET blines == [k \in 1..(r[2] - r[1] + 1) |-> At(f.file, r[1] + k - 1)]
             nfile  == RemoveAll(f.file, blines)
             a      == r[1] + 1
         IN  [f |-> [f EXCEPT !.file = nfile, !.dirty = TRUE,
                              !.addr = IF a < 0 \/ a >= Len(nfile)
                                       THEN 0 ELSE a,
                              !.marks = [c \in MarkNames |->
                                            IF \E k \in 1..Len(blines) :
                                                  blines[k] = f.marks[c]
                                            THEN NoMark ELSE f.marks[c]]],
              e |-> Nil]

Delete(f, r) ==
    IF \E l \in r[1]..r[2] : OOB(f, l)
    THEN [f |-> f, e |-> ErrOOB]
    ELSE LET blines == [k \in 1..(r[2] - r[1] + 1) |-> At(f.file, r[1] + k - 1)]
             nfile  == RemoveAll(f.file, blines)
             a      == r[1] + 1
         IN  [f |-> [f EXCEPT !.file = nfile, !.dirty = TRUE,
                              !.addr = IF a < 0 \/ a >= Len(nfile)
                                       THEN 0 ELSE a],
              e |-> Nil]

\* Insert that numbers the new lines from one past the end of the pool
InsertOffByOne(f, line, nlines) ==
    IF line # FLen(f) /\ OOB(f, line) THEN [f |-> f, e |-> ErrOOB]
    ELSE IF Len(nlines) = 0 THEN [f |-> f, e |-> Nil]
    ELSE LET first == Len(f.buffer) + 1
             nf    == [k \in 1..Len(nlines) |-> first + k - 1]
         IN  [f |-> [f EXCEPT !.buffer = f.buffer \o nlines,
                              !.file = Upto(f.file, line) \o nf \o From(f.file, line),
                              !.dirty = TRUE,
                              !.addr = line + Len(nlines) - 1],
              e |-> Nil]

Insert(f, line, nlines) ==
    IF line # FLen(f) /\ OOB(f, line) THEN [f |-> f, e |-> ErrOOB]
    ELSE IF Len(nlines) = 0 THEN [f |-> f, e |-> Nil]
    ELSE LET first == Len(f.buffer)
             nf    == [k \in 1..Len(nlines) |-> first + k - 1]
         IN  [f |-> [f EXCEPT !.buffer = f.buffer \o nlines,
                              !.file = Upto(f.file, line) \o nf \o From(f.file, line),
                              !.dirty = TRUE,
                              !.addr = line + Len(nlines) - 1],
              e |-> Nil]

SetAddr(f, i) ==
    IF OOB(f, i) THEN [f |-> f, e |-> ErrOOB]
    ELSE [f |-> [f EXCEPT !.addr = i], e |-> Nil]

Clean(f) == [f EXCEPT !.dirty = FALSE]

\* SetMark that counts as a change of the buffer
SetMarkDirty(f, c, l) ==
    IF OOB(f, l) THEN [f |-> f, e |-> ErrOOB]
    ELSE [f |-> [f EXCEPT !.marks[c] = At(f.file, l), !.dirty = TRUE],
          e |-> Nil]

SetMark(f, c, l) ==
    IF OOB(f, l) THEN [f |-> f, e |-> ErrOOB]
    ELSE [f |-> [f EXCEPT !.marks[c] = At(f.file, l)], e |-> Nil]

\* GetMark that takes the pool index of the mark for its line
GetMarkNoSearch(f, c) ==
    IF c \notin MarkNames \/ f.marks[c] = NoMark
    THEN [l |-> -1, e |-> "no such mark"]
    ELSE IF OOB(f, f.marks[c]) THEN [l |-> -1, e |-> "mark was cleared"]
    ELSE [l |-> f.marks[c], e |-> Nil]

GetMark(f, c) ==
    IF c \notin MarkNames \/ f.marks[c] = NoMark
    THEN [l |-> -1, e |-> "no such mark"]
    ELSE IF \E i \in 0..(FLen(f) - 1) : At(f.file, i) = f.marks[c]
    THEN [l |-> CHOOSE i \in 0..(FLen(f) - 1) :
                    /\ At(f.file, i) = f.marks[c]
                    /\ \A j \in 0..(i - 1) : At(f.file, j) # f.marks[c],
          e |-> Nil]
    ELSE [l |-> -1, e |-> "mark was cleared"]

RECURSIVE SumLen(_)
SumLen(ls) == IF Len(ls) = 0 THEN 0 ELSE Len(Head(ls)) + SumLen(Tail(ls))

Size(f) == SumLen([k \in 1..FLen(f) |-> Line(f, k - 1)])

----------------------------------------------------------------------------
(* The undo stack, the cut register and ReadFile.  The dispatcher calls    *)
(* Start before every handler and End after a successful one; u calls      *)
(* Rewind.  A snapshot is (view, current address, dirty flag, marks).      *)

Snapshot(f) ==
    [file |-> f.file, addr |-> f.addr, dirty |-> f.dirty, marks |-> f.marks]

\* Begin: push a snapshot
Start(f) == [f EXCEPT !.undo = Append(f.undo, Snapshot(f))]

\* End: a no-op marker
End(f) == f

\* Undo.  Start has just pushed the state before this u; Rewind restores the
\* snapshot pushed before that one and leaves the pre-undo snapshot on top,
\* so that a second u toggles back.
Rewind(f) ==
    IF Len(f.undo) < 2 THEN f
    ELSE LET own == f.undo[Len(f.undo)]
             s   == f.undo[Len(f.undo) - 1]
         IN  [f EXCEPT !.file = s.file, !.addr = s.addr, !.dirty = s.dirty,
                       !.marks = s.marks,
                       !.undo = Upto(f.undo, Len(f.undo) - 2) \o <<own>>]

\* Rewind only ever reads the two topmost snapshots, so the model keeps the
\* MaxUndo topmost ones once a command line is done.
Trim(f) ==
    IF Len(f.undo) <= MaxUndo THEN f
    ELSE [f EXCEPT !.undo = From(f.undo, Len(f.undo) - MaxUndo)]

\* Copy: the pool indices of the range go to the cut register
Copy(f, r) ==
    IF OOB(f, r[1]) \/ OOB(f, r[2]) THEN [f |-> f, e |-> ErrOOB]
    ELSE [f |-> [f EXCEPT !.cutBuf =
                    [k \in 1..(r[2] - r[1] + 1) |-> At(f.file, r[1] + k - 1)]],
          e |-> Nil]

\* Paste: the cut register is spliced into the view at line
Paste(f, line) ==
    IF line # FLen(f) /\ OOB(f, line) THEN [f |-> f, e |-> ErrOOB]
    ELSE IF Len(f.cutBuf) = 0 THEN [f |-> f, e |-> Nil]
    ELSE [f |-> [f EXCEPT !.file = Upto(f.file, line) \o f.cutBuf
                                       \o From(f.file, line),
                          !.dirty = TRUE,
                          !.addr = line + Len(f.cutBuf) - 1],
          e |-> Nil]

----------------------------------------------------------------------------
(* Address resolution.                                                     *)

\* wsOffset: 1 if cmd starts with a white space character, else 0
wsOffset(cmd) == IF Len(cmd) > 0 /\ Ch(cmd, 0) \in Space THEN 1 ELSE 0

\* rxOff: white space, then a number or a sign with an optional number.
\* ws: the length of the white space; rest: what follows it; nd and k: the
\* digits rest starts with, and those after its sign
OffsetAt(ws, rest, nd, k) ==
    IF ws = 0 \/ Len(rest) = 0 THEN [offset |-> 0, cmdOffset |-> 0]
    ELSE IF nd > 0
    THEN [offset |-> Atoi(Upto(rest, nd)), cmdOffset |-> ws + nd]
    ELSE IF Ch(rest, 0) \in {"+", "-"}
    THEN [offset    |-> (IF Ch(rest, 0) = "+" THEN 1 ELSE -1)
                        * (IF k > 0 THEN Atoi(SubSeq(rest, 2, 1 + k)) ELSE 1),
          cmdOffset |-> ws + 1 + k]
    ELSE [offset |-> 0, cmdOffset |-> 0]

ResolveOffset(cmd) ==
    LET In(ws, rest) ==
            OffsetAt(ws, rest, SpanLen(rest, Digits),
                     SpanLen(From(rest, 1), Digits))
        After(ws) == In(ws, From(cmd, ws))
    IN  After(SpanLen(cmd, Space))

\* the offsets that follow a single address
RECURSIVE Offsets(_, _, _)
Offsets(cmd, line, cmdOffset) ==
    LET More(o) ==
            IF o.cmdOffset > 0
            THEN Offsets(cmd, line + o.offset, cmdOffset + o.cmdOffset)
            ELSE [line |-> line, cmdOffset |-> cmdOffset, e |-> Nil]
    IN  More(ResolveOffset(From(cmd, cmdOffset)))

\* len(rxSingle.FindString(cmd)): the single address cmd starts with.  A
\* regular expression address goes from its delimiter to the next / or ?
\* (the command lines of the model hold no backslash).
SingleLenOf(cmd, c) ==
    LET RegexLen(j) == IF j = -1 THEN 0 ELSE j + 2
    IN
    CASE c \in {".", "$"} -> 1
      [] c \in Digits -> SpanLen(cmd, Digits)
      [] c \in {"+", "-"} -> 1 + SpanLen(From(cmd, 1), Digits)
      [] c = "'" -> IF Len(cmd) > 1 /\ Ch(cmd, 1) \in Lower THEN 2 ELSE 0
      [] c \in {"/", "?"} -> RegexLen(IndexOf(From(cmd, 1), c))
      [] OTHER -> 0

SingleLen(cmd) == IF Len(cmd) = 0 THEN 0 ELSE SingleLenOf(cmd, Ch(cmd, 0))

\* the search of a regular expression address: the first i in 0..Len-1
\* whose line (sign*i + addr + Len) % Len matches
SearchHit(f, sign, hit) ==
    IF hit = {} THEN [line |-> f.addr, e |-> "regexp not found"]
    ELSE [line |-> (sign * (CHOOSE i \in hit : \A j \in hit : i <= j)
                    + f.addr + FLen(f)) % FLen(f),
          e    |-> Nil]

\* the search that starts at the line after (before) the current one
SearchFromNext(f, restr, sign) ==
    SearchHit(f, sign,
              {i \in 1..FLen(f) :
                  Contains(Line(f, (sign * i + f.addr + FLen(f)) % FLen(f)),
                           restr)})

Search(f, restr, sign) ==
    SearchHit(f, sign,
              {i \in 0..(FLen(f) - 1) :
                  Contains(Line(f, (sign * i + f.addr + FLen(f)) % FLen(f)),
                           restr)})

\* the line of the single address m, of n > 0 characters, the first one c
FirstAddr(f, m, n, c) ==
    LET MarkAddr(g) == [line |-> g.l, e |-> g.e]
    IN
    CASE c = "." -> [line |-> f.addr, e |-> Nil]
      [] c = "$" -> [line |-> FLen(f) - 1, e |-> Nil]
      [] c \in Digits -> [line |-> Atoi(m) - 1, e |-> Nil]
      [] c \in {"+", "-"} ->
            [line |-> f.addr + (IF c = "+" THEN 1 ELSE -1)
                               * (IF n > 1 THEN Atoi(From(m, 1)) ELSE 1),
             e    |-> Nil]
      [] c = "'" -> MarkAddr(GetMark(f, Ch(m, 1)))
      [] c \in {"/", "?"} ->
            Search(f, SubSeq(m, 2, n - 1), IF c = "?" THEN -1 ELSE 1)

AddrWithOffsets(cmd, n, first) ==
    IF first.e # Nil
    THEN [line |-> first.line, cmdOffset |-> n, e |-> first.e]
    ELSE Offsets(cmd, first.line, n)

ResolveAddrAt(f, cmd, n) ==
    IF n = 0 THEN [line |-> f.addr, cmdOffset |-> 0, e |-> Nil]
    ELSE AddrWithOffsets(cmd, n, FirstAddr(f, Upto(cmd, n), n, Ch(cmd, 0)))

ResolveAddr(f, cmd) == ResolveAddrAt(f, cmd, SingleLen(cmd))

\* the loop of ResolveAddrs, from the offset cmdOffset with the addresses
\* lines found so far; f carries the current address a ';' sets
RECURSIVE AddrsLoop(_, _, _, _)

\* AddrsNext without the SetAddr of ';'
AddrsNextNoSet(f, cmd, lines, o1, a, ls, o3, sa) ==
    IF a.e # Nil
    THEN [f |-> f, lines |-> lines, cmdOffset |-> o1, e |-> a.e]
    ELSE IF Len(cmd) - 1 <= o3
    THEN [f |-> f, lines |-> ls, cmdOffset |-> o3, e |-> Nil]
    ELSE CASE Ch(cmd, o3) \in {",", ";"} -> AddrsLoop(f, cmd, ls, o3 + 1)
           [] Ch(cmd, o3) = "%" ->
                 [f         |-> f,
                  lines     |-> ls \o <<0, FLen(f) - 1>>,
                  cmdOffset |-> o3 + 1 + wsOffset(From(cmd, o3 + 1)),
                  e         |-> Nil]
           [] OTHER ->
                 [f |-> f, lines |-> ls, cmdOffset |-> o3, e |-> Nil]

\* after the address a at offset o1: ls are the addresses with a.line, o3 the
\* offset of the separator, sa what SetAddr makes of a.line
AddrsNext(f, cmd, lines, o1, a, ls, o3, sa) ==
    IF a.e # Nil
    THEN [f |-> f, lines |-> lines, cmdOffset |-> o1, e |-> a.e]
    ELSE IF Len(cmd) - 1 <= o3
    THEN [f |-> f, lines |-> ls, cmdOffset |-> o3, e |-> Nil]
    ELSE CASE Ch(cmd, o3) = "," -> AddrsLoop(f, cmd, ls, o3 + 1)
           [] Ch(cmd, o3) = ";" ->
                 IF sa.e # Nil
                 THEN [f |-> f, lines |-> ls, cmdOffset |-> o3, e |-> sa.e]
                 ELSE AddrsLoop(sa.f, cmd, ls, o3 + 1)
           [] Ch(cmd, o3) = "%" ->
                 [f         |-> f,
                  lines     |-> ls \o <<0, FLen(f) - 1>>,
                  cmdOffset |-> o3 + 1 + wsOffset(From(cmd, o3 + 1)),
                  e         |-> Nil]
           [] OTHER ->
                 [f |-> f, lines |-> ls, cmdOffset |-> o3, e |-> Nil]

AddrsLoop(f, cmd, lines, cmdOffset) ==
    LET Sep(o1, a, o2) ==
            AddrsNext(f, cmd, lines, o1, a, Append(lines, a.line),
                      o2 + wsOffset(From(cmd, o2)), SetAddr(f, a.line))
        At1(o1, a) == Sep(o1, a, o1 + a.cmdOffset)
        From1(o1) == At1(o1, ResolveAddr(f, From(cmd, o1)))
    IN  IF ~(cmdOffset < Len(cmd))
        THEN [f |-> f, lines |-> lines, cmdOffset |-> cmdOffset, e |-> Nil]
        ELSE From1(cmdOffset + wsOffset(From(cmd, cmdOffset)))

ResolveAddrs(f, cmd) == AddrsLoop(f, cmd, <<>>, 0)

\* the error of the range r
RangeErr(f, r) ==
    [r |-> r,
     e |-> IF r[1] > r[2] THEN "address out of order"
           ELSE IF OOB(f, r[1]) \/ OOB(f, r[2]) THEN ErrOOB
           ELSE Nil]

\* AddrRange taking a single address as the range of that line
AddrRangeOfLine(f, addrs) ==
    IF Len(addrs) = 0 THEN [r |-> <<0, 0>>, e |-> ErrINV]
    ELSE RangeErr(f, IF Len(addrs) = 1 THEN <<addrs[1], addrs[1]>>
                     ELSE <<addrs[Len(addrs) - 1], addrs[Len(addrs)]>>)

\* the range consumer
AddrRange(f, addrs) ==
    IF Len(addrs) = 0 THEN [r |-> <<0, 0>>, e |-> ErrINV]
    ELSE RangeErr(f, IF Len(addrs) = 1 THEN <<f.addr, addrs[1]>>
                     ELSE <<addrs[Len(addrs) - 1], addrs[Len(addrs)]>>)

\* the single value consumer
AddrValue(f, addrs) ==
    IF Len(addrs) = 0 THEN [r |-> 0, e |-> ErrINV]
    ELSE [r |-> addrs[Len(addrs)],
          e |-> IF OOB(f, addrs[Len(addrs)]) THEN ErrOOB ELSE Nil]

\* the range-or-line consumer
AddrRangeOrLine(f, addrs) ==
    LET LineRange(v) ==
            IF v.e # Nil THEN [r |-> <<v.r, 0>>, e |-> v.e]
            ELSE [r |-> <<v.r, v.r>>, e |-> Nil]
    IN  IF Len(addrs) > 1 THEN AddrRange(f, addrs)
        ELSE LineRange(AddrValue(f, addrs))

----------------------------------------------------------------------------
(* The command handlers.  A handler works on the world w (the FileBuffer   *)
(* fb, the session state, the file system, the nil-ness of the buffer      *)
(* pointer, the exit state and the output) and returns the new world and   *)
(* its error.  ctx is the Context: cmd, cmdOffset, addrs.                  *)

Byte(ctx) == Ch(ctx.cmd, ctx.cmdOffset)
Suffix(ctx) == From(ctx.cmd, ctx.cmdOffset + 1)

Ok(w) == [w |-> w, e |-> Nil]
Err(w, e) == [w |-> w, e |-> e]
Crash(w) == [w |-> [w EXCEPT !.exit = "panicked"], e |-> Panic]
Println(w, s) == [w EXCEPT !.out = Append(w.out, s)]

\* os.Exit(0)
Exit0(w) == [w EXCEPT !.exit = "exited"]

cmdDelete(w, ctx) ==
    LET a == AddrRangeOrLine(w.fb, ctx.addrs)
    IN  IF a.e # Nil THEN Err(w, a.e)
        ELSE LET d == Delete(w.fb, a.r)
             IN  [w |-> [w EXCEPT !.fb = d.f], e |-> d.e]

\* cmdQuit letting a q that follows a refused q through
cmdQuitSecond(w, ctx) ==
    IF Byte(ctx) = "q" /\ w.fb.dirty
       /\ w.state.lastErr # "warning: file modified"
    THEN Err(w, "warning: file modified")
    ELSE Ok(Exit0(w))

cmdQuit(w, ctx) ==
    IF Byte(ctx) = "q" /\ w.fb.dirty THEN Err(w, "warning: file modified")
    ELSE Ok(Exit0(w))

cmdPrint(w, ctx) ==
    LET a == AddrRangeOrLine(w.fb, ctx.addrs)
        shown(l) ==
            (IF Byte(ctx) = "n" THEN ToString(l + 1) \o "\t" ELSE "")
            \o Line(w.fb, l)
            \o (IF Byte(ctx) = "l" THEN "$" ELSE "")
    IN  IF a.e # Nil THEN Err(w, a.e)
        ELSE Ok([w EXCEPT
                    !.fb  = IF a.r[1] <= a.r[2]
                            THEN GetMust(w.fb, a.r[2], TRUE).f ELSE w.fb,
                    !.out = w.out \o [k \in 1..(a.r[2] - a.r[1] + 1) |->
                                         shown(a.r[1] + k - 1)]])

cmdScroll(w, ctx) ==
    LET v      == AddrValue(w.fb, ctx.addrs)
        winStr == Suffix(ctx)
        bad    == Len(winStr) > 0 /\ SpanLen(winStr, Digits) # Len(winStr)
        win    == IF Len(winStr) > 0 THEN Atoi(winStr) ELSE w.state.winSize
        w1     == [w EXCEPT !.state.winSize = win]
        end    == Min(v.r + win - 1, FLen(w.fb) - 1)
        g      == Get(w.fb, <<v.r, end>>)
    IN  IF v.e # Nil THEN Err(w, v.e)
        ELSE IF bad THEN Err(w, "invalid window size")
        ELSE IF g.e # Nil THEN Err(w1, g.e)
        ELSE Ok([w1 EXCEPT !.fb = g.f, !.out = w.out \o g.lines])

cmdErr(w, ctx) ==
    IF Byte(ctx) = "h" /\ w.state.lastErr # Nil
    THEN Ok(Println(w, w.state.lastErr))
    ELSE IF Byte(ctx) = "H"
    THEN Ok([w EXCEPT !.state.printErr = ~w.state.printErr])
    ELSE Ok(w)

\* cmdInput deleting the range of c before it looks at the input lines
cmdInputDeletesFirst(w, ctx, nbuf) ==
    LET Scanned(s) ==
            IF Byte(ctx) \in {"i", "a"}
            THEN IF Len(nbuf) = 0 THEN Ok(s)
                 ELSE LET v == AddrValue(s.fb, ctx.addrs)
                          i == Insert(s.fb, IF Byte(ctx) = "i" THEN v.r
                                            ELSE v.r + 1, nbuf)
                      IN  IF v.e # Nil THEN Err(s, v.e)
                          ELSE [w |-> [s EXCEPT !.fb = i.f], e |-> i.e]
            ELSE LET a == AddrRange(s.fb, ctx.addrs)
                     d == Delete(s.fb, a.r)
                     i == Insert(d.f, a.r[1], nbuf)
                 IN  IF a.e # Nil THEN Err(s, a.e)
                     ELSE IF Len(nbuf) = 0
                     THEN [w |-> [s EXCEPT !.fb = d.f], e |-> d.e]
                     ELSE [w |-> [s EXCEPT !.fb = i.f], e |-> i.e]
    IN  IF Len(Suffix(ctx)) # 0 /\ Byte(ctx) # "c"
        THEN Err(w, Byte(ctx) \o " only takes a single line addres")
        ELSE Scanned([w EXCEPT !.read = Len(nbuf) + 1])

\* nbuf: the lines standard input holds before the next line that is ".";
\* once the suffix is accepted the handler reads them and the "." from
\* standard input, which read counts
cmdInput(w, ctx, nbuf) ==
    LET Scanned(s) ==
            IF Len(nbuf) = 0 THEN Ok(s)
            ELSE IF Byte(ctx) \in {"i", "a"}
            THEN LET v == AddrValue(s.fb, ctx.addrs)
                     i == Insert(s.fb, IF Byte(ctx) = "i" THEN v.r
                                       ELSE v.r + 1, nbuf)
                 IN  IF v.e # Nil THEN Err(s, v.e)
                     ELSE [w |-> [s EXCEPT !.fb = i.f], e |-> i.e]
            ELSE LET a == AddrRange(s.fb, ctx.addrs)
                     d == Delete(s.fb, a.r)
                     i == Insert(d.f, a.r[1], nbuf)
                 IN  IF a.e # Nil THEN Err(s, a.e)
                     ELSE [w |-> [s EXCEPT !.fb = i.f], e |-> i.e]
    IN  IF Len(Suffix(ctx)) # 0 /\ Byte(ctx) # "c"
        THEN Err(w, Byte(ctx) \o " only takes a single line addres")
        ELSE Scanned([w EXCEPT !.read = Len(nbuf) + 1])

----------------------------------------------------------------------------
(* The file system: fs maps the names of the files that exist to their     *)
(* lines.  The empty name cannot be opened.                                *)

Exists(w, name) == name \in DOMAIN w.fs

\* fmt.Fprintf(f, "%s\n", s) for every line s: the bytes cmdWrite writes
RECURSIVE Fprintf(_)
Fprintf(lines) ==
    IF Len(lines) = 0 THEN ""
    ELSE Head(lines) \o "\n" \o Fprintf(Tail(lines))

\* bufio.Scanner with ScanLines on the bytes b: the tokens end at "\n", a
\* "\r" that ends a token is dropped, and bytes after the last "\n" are a
\* last token
RECURSIVE ScanLines(_)
ScanLines(b) ==
    LET dropCR(t) ==
            IF Len(t) > 0 /\ Ch(t, Len(t) - 1) = "\r"
            THEN Upto(t, Len(t) - 1) ELSE t
        Token(i) ==
            IF i = -1 THEN <<dropCR(b)>>
            ELSE <<dropCR(Upto(b, i))>> \o ScanLines(From(b, i + 1))
    IN  IF Len(b) = 0 THEN <<>> ELSE Token(IndexOf(b, "\n"))

\* fs holds of a file the lines a Scanner reads from it; every file ends
\* with "\n", so the lines of appended bytes follow those of the file
WriteFile(w, name, lines, app) ==
    LET Written(ls) ==
            [w EXCEPT !.fs = [n \in (DOMAIN w.fs) \cup {name} |->
                                IF n # name THEN w.fs[n]
                                ELSE IF app /\ Exists(w, name)
                                THEN w.fs[n] \o ls
                                ELSE ls]]
    IN  Written(ScanLines(Fprintf(lines)))

\* rxWrite, "^(q)?(?: )?(!)?(.*)", on the suffix of w and W
rxWrite(sfx) ==
    LET q  == IF Len(sfx) > 0 /\ Ch(sfx, 0) = "q" THEN 1 ELSE 0
        s1 == From(sfx, q)
        sp == IF Len(s1) > 0 /\ Ch(s1, 0) = " " THEN 1 ELSE 0
        s2 == From(s1, sp)
        b  == IF Len(s2) > 0 /\ Ch(s2, 0) = "!" THEN 1 ELSE 0
    IN  [quit |-> q = 1, run |-> b = 1, file |-> From(s2, b)]

cmdWrite(w, ctx) ==
    LET a    == IF ctx.cmdOffset = 0
                THEN [r |-> <<0, FLen(w.fb) - 1>>, e |-> Nil]
                ELSE AddrRange(w.fb, ctx.addrs)
        m    == rxWrite(Suffix(ctx))
        name == IF Len(m.file) > 0 THEN m.file ELSE w.state.fileName
        g    == Get(w.fb, a.r)
        w1   == [w EXCEPT !.fb = g.f]
        w2   == WriteFile(w1, name, g.lines, Byte(ctx) = "W")
    IN  IF a.e # Nil THEN Err(w, a.e)
        ELSE IF g.e # Nil THEN Err(w, g.e)
        ELSE IF m.run THEN Err(w1, "sending to stdin not yet supported")
        ELSE IF name = "" THEN Err(w1, "open: no such file or directory")
        ELSE IF m.quit THEN Ok(Exit0(w2))
        ELSE Ok([w2 EXCEPT !.fb = Clean(w2.fb)])

\* k that marks the current line, whatever the address
cmdMarkCurrent(w, ctx) ==
    IF Len(ctx.cmd) - 1 <= ctx.cmdOffset
    THEN Err(w, "no mark character supplied")
    ELSE LET v == AddrValue(w.fb, ctx.addrs)
             m == SetMark(w.fb, Ch(ctx.cmd, ctx.cmdOffset + 1), w.fb.addr)
         IN  IF v.e # Nil THEN Err(w, v.e)
             ELSE [w |-> [w EXCEPT !.fb = m.f], e |-> m.e]

cmdMark(w, ctx) ==
    IF Len(ctx.cmd) - 1 <= ctx.cmdOffset
    THEN Err(w, "no mark character supplied")
    ELSE LET v == AddrValue(w.fb, ctx.addrs)
             m == SetMark(w.fb, Ch(ctx.cmd, ctx.cmdOffset + 1), v.r)
         IN  IF v.e # Nil THEN Err(w, v.e)
             ELSE [w |-> [w EXCEPT !.fb = m.f], e |-> m.e]

\* FileToBuffer: nil, and no error, when the file cannot be opened
FileToBuffer(w, name) ==
    IF Exists(w, name)
    THEN [w EXCEPT !.fb = NewFileBuffer(w.fs[name]), !.isNil = FALSE]
    ELSE [w EXCEPT !.isNil = TRUE]

\* ReadFile: the lines of the file go in after line
ReadFile(w, line, name) ==
    IF ~Exists(w, name) THEN Err(w, "could not read file")
    ELSE LET i == Insert(w.fb, line + 1, w.fs[name])
         IN  [w |-> [w EXCEPT !.fb = i.f], e |-> i.e]

cmdEdit(w, ctx) ==
    LET v     == AddrValue(w.fb, ctx.addrs)
        cmd   == Byte(ctx)
        force == cmd \in {"E", "r"}
        sfx   == Suffix(ctx)
        name  == From(sfx, wsOffset(sfx))
        rd    == ReadFile(w, v.r, name)
        w1    == IF cmd # "r" THEN FileToBuffer(w, name)
                 ELSE IF Len(w.state.fileName) = 0
                 THEN [rd.w EXCEPT !.state.fileName = name]
                 ELSE rd.w
    IN  IF v.e # Nil THEN Err(w, v.e)
        ELSE IF w.fb.dirty /\ ~force THEN Err(w, "warning: file modified")
        ELSE IF Len(name) = 0 THEN Crash(w)
        ELSE IF Ch(name, 0) = "!"
        THEN Err(w, "command execution is not yet supported")
        ELSE IF ~Exists(w, name) /\ ~fSuppress
        THEN Err(w, "No such file or directory")
        ELSE [w |-> IF fSuppress THEN w1
                    ELSE Println(w1, ToString(Size(w1.fb))),
              e |-> IF cmd = "r" THEN rd.e ELSE Nil]

cmdFile(w, ctx) ==
    LET c0      == From(ctx.cmd, ctx.cmdOffset)
        newFile == From(c0, wsOffset(c0))
    IN  IF Len(newFile) > 0 THEN Ok([w EXCEPT !.state.fileName = newFile])
        ELSE Ok(Println(w, w.state.fileName))

cmdLine(w, ctx) ==
    LET v == AddrValue(w.fb, ctx.addrs)
    IN  IF v.e = Nil THEN Ok(Println(w, ToString(v.r + 1))) ELSE Err(w, v.e)

\* the concatenation of the lines
RECURSIVE Joined(_)
Joined(ls) == IF Len(ls) = 0 THEN "" ELSE Head(ls) \o Joined(Tail(ls))

\* rxSanitize.ReplaceAllString(s, "  "): a backslash and the character after
\* it become two spaces
RECURSIVE Sanitize(_)
Sanitize(s) ==
    IF Len(s) = 0 THEN ""
    ELSE IF Ch(s, 0) = "\\" /\ Len(s) > 1 THEN "  " \o Sanitize(From(s, 2))
    ELSE Ch(s, 0) \o Sanitize(From(s, 1))

\* The replacement of one match.  The patterns of the model are literal
\* strings, so a match has the single group 0, the match itself; a
\* backreference to another group is the error "invalid backref".  A pair
\* of backslashes is masked and copied as it is.
RECURSIVE BadBackref(_)
BadBackref(rep) ==
    IF Len(rep) < 2 THEN FALSE
    ELSE IF Ch(rep, 0) # "\\" THEN BadBackref(From(rep, 1))
    ELSE IF Ch(rep, 1) = "\\" THEN BadBackref(From(rep, 2))
    ELSE LET k == SpanLen(From(rep, 1), Digits)
         IN  IF k = 0 THEN BadBackref(From(rep, 1))
             ELSE Atoi(SubSeq(rep, 2, 1 + k)) > 0 \/ BadBackref(From(rep, 1 + k))

RECURSIVE Expand(_, _)
Expand(rep, mat) ==
    IF Len(rep) = 0 THEN ""
    ELSE IF Len(rep) < 2 \/ Ch(rep, 0) # "\\"
    THEN Ch(rep, 0) \o Expand(From(rep, 1), mat)
    ELSE IF Ch(rep, 1) = "\\" THEN "\\\\" \o Expand(From(rep, 2), mat)
    ELSE LET k == SpanLen(From(rep, 1), Digits)
         IN  IF k = 0 THEN "\\" \o Expand(From(rep, 1), mat)
             ELSE mat \o Expand(From(rep, 1 + k), mat)

\* every non-overlapping match of the literal pattern mat in l replaced
RECURSIVE ReplaceAll(_, _, _)
ReplaceAll(l, mat, rep) ==
    IF Len(mat) = 0
    THEN rep \o (IF Len(l) = 0 THEN ""
                 ELSE Ch(l, 0) \o ReplaceAll(From(l, 1), mat, rep))
    ELSE IF Len(l) < Len(mat) THEN l
    ELSE IF Upto(l, Len(mat)) = mat
    THEN rep \o ReplaceAll(From(l, Len(mat)), mat, rep)
    ELSE Ch(l, 0) \o ReplaceAll(From(l, 1), mat, rep)

\* the loop of cmdSub over the lines b of the range, ln being the index in b
RECURSIVE SubLoop(_, _, _, _, _, _, _)

\* the substituted line overwrites the pool entry of the line ln
SubLineInPlace(f, b, ln, mat, rep, nMatch, fLin) ==
    SubLoop([f EXCEPT !.buffer[At(f.file, ln) + 1] = fLin, !.dirty = TRUE],
            b, ln + 1, mat, rep, fLin, nMatch + 1)

\* the line ln of b becomes fLin
SubLine(f, b, ln, mat, rep, nMatch, fLin) ==
    SubLoop(Insert(Delete(f, <<ln, ln>>).f, ln, <<fLin>>).f, b, ln + 1, mat,
            rep, fLin, nMatch + 1)

SubLoop(f, b, ln, mat, rep, last, nMatch) ==
    IF ln >= Len(b)
    THEN [f |-> f, last |-> last, nMatch |-> nMatch, e |-> Nil]
    ELSE IF ~Contains(At(b, ln), mat)
    THEN SubLoop(f, b, ln + 1, mat, rep, last, nMatch)
    ELSE IF BadBackref(rep)
    THEN [f |-> f, last |-> last, nMatch |-> nMatch + 1,
          e |-> "invalid backref"]
    ELSE SubLine(f, b, ln, mat, rep, nMatch,
                 ReplaceAll(At(b, ln), mat, Expand(rep, mat)))

\* cmdJoin without the return for a range of one line
cmdJoinAlways(w, ctx) ==
    LET a      == AddrRangeOrLine(w.fb, ctx.addrs)
        lines  == [k \in 1..(a.r[2] - a.r[1] + 1) |-> Line(w.fb, a.r[1] + k - 1)]
        joined == Joined(lines)
        d      == Delete(w.fb, a.r)
        i      == Insert(d.f, a.r[1], <<joined>>)
    IN  IF a.e # Nil THEN Err(w, a.e)
        ELSE IF d.e # Nil THEN Err(w, d.e)
        ELSE [w |-> [w EXCEPT !.fb = i.f], e |-> i.e]

cmdJoin(w, ctx) ==
    LET a      == AddrRangeOrLine(w.fb, ctx.addrs)
        lines  == [k \in 1..(a.r[2] - a.r[1] + 1) |-> Line(w.fb, a.r[1] + k - 1)]
        joined == Joined(lines)
        d      == Delete(w.fb, a.r)
        i      == Insert(d.f, a.r[1], <<joined>>)
    IN  IF a.e # Nil THEN Err(w, a.e)
        ELSE IF a.r[1] = a.r[2] THEN Ok(w)
        ELSE IF d.e # Nil THEN Err(w, d.e)
        ELSE [w |-> [w EXCEPT !.fb = i.f], e |-> i.e]

\* the destination of m, t and x: address 0 (line -1) stands for "before
\* the first line", any other for "after that line"
DestAddrs(lines) ==
    IF At(lines, Len(lines) - 1) = -1
    THEN [lines EXCEPT ![Len(lines)] = 0] ELSE lines
DestApp(lines) == IF At(lines, Len(lines) - 1) = -1 THEN 0 ELSE 1

\* the buffer and the error of the FileBuffer call x
SetFb(w, x) == [w |-> [w EXCEPT !.fb = x.f], e |-> x.e]

\* cmdMoveDelete deleting the range for t as for m
cmdMoveDeleteAlways(w, ctx, r, gf, i) ==
    IF i.e # Nil THEN Err([w EXCEPT !.fb = gf], i.e)
    ELSE SetFb(w, Delete(i.f, r))

\* m and t once the lines are inserted at the destination: m deletes the
\* range r they came from
cmdMoveDelete(w, ctx, r, gf, i) ==
    IF i.e # Nil THEN Err([w EXCEPT !.fb = gf], i.e)
    ELSE IF Byte(ctx) = "m" THEN SetFb(w, Delete(i.f, r))
    ELSE Ok([w EXCEPT !.fb = i.f])

\* cmdMoveInsert inserting the lines before it tests the destination
cmdMoveInsertFirst(w, ctx, a, f, app, dest, g) ==
    IF g.e # Nil THEN Err([w EXCEPT !.fb = f], g.e)
    ELSE IF ~(dest < a.r[1]) /\ ~(dest > a.r[2])
    THEN Err([w EXCEPT !.fb = Insert(g.f, dest + app, g.lines).f],
             "cannot move lines to within their own range")
    ELSE cmdMoveDelete(w, ctx,
                       IF dest < a.r[1]
                       THEN <<a.r[1] + (a.r[2] - a.r[1] + 1),
                              a.r[2] + (a.r[2] - a.r[1] + 1)>>
                       ELSE a.r,
                       g.f, Insert(g.f, dest + app, g.lines))

\* m and t with the lines g of the range a and the destination dest
cmdMoveInsert(w, ctx, a, f, app, dest, g) ==
    IF g.e # Nil THEN Err([w EXCEPT !.fb = f], g.e)
    ELSE IF ~(dest < a.r[1]) /\ ~(dest > a.r[2])
    THEN Err([w EXCEPT !.fb = g.f],
             "cannot move lines to within their own range")
    ELSE cmdMoveDelete(w, ctx,
                       IF dest < a.r[1]
                       THEN <<a.r[1] + (a.r[2] - a.r[1] + 1),
                              a.r[2] + (a.r[2] - a.r[1] + 1)>>
                       ELSE a.r,
                       g.f, Insert(g.f, dest + app, g.lines))

\* m and t with the range a and what ResolveAddrs made of the suffix, n
cmdMoveDest(w, ctx, a, n) ==
    IF a.e # Nil THEN Err(w, a.e)
    ELSE IF n.e # Nil THEN Err([w EXCEPT !.fb = n.f], n.e)
    ELSE IF Len(n.lines) - 1 < 0 THEN Crash(w)
    ELSE LET To(dv) ==
                 IF dv.e # Nil THEN Err([w EXCEPT !.fb = n.f], dv.e)
                 ELSE cmdMoveInsert(w, ctx, a, n.f, DestApp(n.lines), dv.r,
                                    Get(n.f, a.r))
         IN  To(AddrValue(n.f, DestAddrs(n.lines)))

cmdMove(w, ctx) ==
    cmdMoveDest(w, ctx, AddrRangeOrLine(w.fb, ctx.addrs),
                ResolveAddrs(w.fb, Suffix(ctx)))

cmdCopy(w, ctx) ==
    LET a == AddrRangeOrLine(w.fb, ctx.addrs)
        c == Copy(w.fb, a.r)
    IN  IF a.e # Nil THEN Err(w, a.e)
        ELSE [w |-> [w EXCEPT !.fb = c.f], e |-> c.e]

cmdPaste(w, ctx) ==
    LET PasteAt(app, v) ==
            IF v.e # Nil THEN Err(w, v.e)
            ELSE SetFb(w, Paste(w.fb, v.r + app))
    IN  IF Len(ctx.addrs) - 1 < 0 THEN Crash(w)
        ELSE PasteAt(DestApp(ctx.addrs),
                     AddrValue(w.fb, DestAddrs(ctx.addrs)))

cmdPrompt(w, ctx) == Ok([w EXCEPT !.state.prompt = ~w.state.prompt])

\* s once the lines are substituted
cmdSubDone(w, l) ==
    IF l.e # Nil THEN Err([w EXCEPT !.fb = l.f], l.e)
    ELSE [w |-> Println([w EXCEPT !.fb = l.f], l.last),
          e |-> IF l.nMatch = 0 THEN "no match" ELSE Nil]

\* s with the pattern mat, the replacement rep and the range a
cmdSubRange(w, mat, rep, a) ==
    IF a.e # Nil THEN Err(w, a.e)
    ELSE LET Lines(g) ==
                 cmdSubDone(w, SubLoop(g.f, g.lines, 0, mat, rep, "", 0))
         IN  Lines(Get(w.fb, a.r))

\* s with the offsets idx0 and idx1 of the second and third delimiter
cmdSubSplit(w, ctx, cmd, idx0, idx1) ==
    IF 1 > idx0 \/ idx0 + 1 > idx1 THEN Crash(w)
    ELSE cmdSubRange(w, SubSeq(cmd, 2, idx0), SubSeq(cmd, idx0 + 2, idx1),
                     AddrRangeOrLine(w.fb, ctx.addrs))

\* s with its suffix cmd and the suffix with the escapes masked, sane
cmdSubSecond(w, ctx, cmd, sane) ==
    IF Len(cmd) = 0 THEN Crash(w)
    ELSE IF Ch(cmd, 0) \in {" ", "\n", "m", "g"}
    THEN Err(w, "Invalid pattern delimiter")
    ELSE LET Third(idx0) ==
                 cmdSubSplit(w, ctx, cmd, idx0,
                             IndexOf(From(sane, idx0 + 1), Ch(cmd, 0))
                             + idx0 + 1)
         IN  Third(IndexOf(From(sane, 1), Ch(cmd, 0)) + 1)

cmdSub(w, ctx) == cmdSubSecond(w, ctx, Suffix(ctx), Sanitize(Suffix(ctx)))

\* u that opens a transaction of its own after rewinding
cmdUndoRestart(w, ctx) == Ok([w EXCEPT !.fb = Start(Rewind(w.fb))])

cmdUndo(w, ctx) == Ok([w EXCEPT !.fb = Rewind(w.fb)])

\* the shell escape and the debug dump only write to standard output
cmdCommand(w, ctx) == Ok(Println(w, "!"))
cmdDump(w, ctx) == Ok(Println(w, "dump"))

----------------------------------------------------------------------------
(* The dispatcher and the main loop.                                       *)

\* the bytes of the cmds map
CmdBytes == {"q", "Q", "d", "l", "p", "n", "h", "H", "a", "i", "c", "w", "W",
             "k", "e", "E", "r", "f", "=", "j", "m", "t", "y", "x", "P", "s",
             "u", "D", "z", "!", "#"}

\* cmds[b](ctx)
Exe(w, ctx, nbuf) ==
    LET b == Byte(ctx)
    IN  CASE b \in {"q", "Q"} -> cmdQuit(w, ctx)
          [] b = "d" -> cmdDelete(w, ctx)
          [] b \in {"l", "p", "n"} -> cmdPrint(w, ctx)
          [] b \in {"h", "H"} -> cmdErr(w, ctx)
          [] b \in {"a", "i", "c"} -> cmdInput(w, ctx, nbuf)
          [] b \in {"w", "W"} -> cmdWrite(w, ctx)
          [] b = "k" -> cmdMark(w, ctx)
          [] b \in {"e", "E", "r"} -> cmdEdit(w, ctx)
          [] b = "f" -> cmdFile(w, ctx)
          [] b = "=" -> cmdLine(w, ctx)
          [] b = "j" -> cmdJoin(w, ctx)
          [] b \in {"m", "t"} -> cmdMove(w, ctx)
          [] b = "y" -> cmdCopy(w, ctx)
          [] b = "x" -> cmdPaste(w, ctx)
          [] b = "P" -> cmdPrompt(w, ctx)
          [] b = "s" -> cmdSub(w, ctx)
          [] b = "u" -> cmdUndo(w, ctx)
          [] b = "D" -> cmdDump(w, ctx)
          [] b = "z" -> cmdScroll(w, ctx)
          [] b = "!" -> cmdCommand(w, ctx)
          [] b = "#" -> Ok(w)

\* The result of run carries, besides the world and the error, whether a
\* handler was dispatched (disp), its command byte and the FileBuffer the
\* handler started from (at).

\* the Context of the line
Context(cmd, ra) ==
    [cmd       |-> IF Len(cmd) <= ra.cmdOffset THEN cmd \o "p" ELSE cmd,
     cmdOffset |-> ra.cmdOffset,
     addrs     |-> ra.lines]

\* Handled, dropping the snapshot of Start when the handler fails
HandledDropsOnError(w0, ctx, x) ==
    [w    |-> IF x.w.isNil THEN x.w
              ELSE IF x.e # Nil
              THEN [x.w EXCEPT !.fb.undo = Upto(x.w.fb.undo,
                                                Len(x.w.fb.undo) - 1)]
              ELSE [x.w EXCEPT !.fb = End(x.w.fb)],
     e    |-> x.e,
     disp |-> TRUE,
     byte |-> Byte(ctx),
     at   |-> w0.fb,
     ctx  |-> ctx]

\* the handler returned x: End after a successful one
Handled(w0, ctx, x) ==
    [w    |-> IF x.e # Nil \/ x.w.isNil THEN x.w
              ELSE [x.w EXCEPT !.fb = End(x.w.fb)],
     e    |-> x.e,
     disp |-> TRUE,
     byte |-> Byte(ctx),
     at   |-> w0.fb,
     ctx  |-> ctx]

\* the handler without the call of Start before it
DispatchNoStart(w0, ctx, nbuf) == Handled(w0, ctx, Exe(w0, ctx, nbuf))

\* Start, then the handler
Dispatch(w0, ctx, nbuf) ==
    Handled(w0, ctx, Exe([w0 EXCEPT !.fb = Start(w0.fb)], ctx, nbuf))

\* run once the addresses are resolved, with the error e
runCommand(w0, ctx, nbuf, e) ==
    IF e # Nil
    THEN [w |-> w0, e |-> e, disp |-> FALSE, byte |-> "", at |-> w0.fb,
          ctx |-> ctx]
    ELSE IF Byte(ctx) \notin CmdBytes
    THEN [w |-> w0, e |-> "invalid command", disp |-> FALSE,
          byte |-> Byte(ctx), at |-> w0.fb, ctx |-> ctx]
    ELSE Dispatch(w0, ctx, nbuf)

run(w, cmd, nbuf) ==
    LET Resolved(ra) ==
            runCommand([w EXCEPT !.fb = ra.f], Context(cmd, ra), nbuf, ra.e)
    IN  Resolved(ResolveAddrs(w.fb, cmd))

\* the world the variables describe, before a command line is read
World ==
    [fb    |-> [buffer |-> buffer, file |-> file, dirty |-> dirty,
                addr |-> addr, marks |-> marks, undo |-> undo,
                cutBuf |-> cutBuf],
     state |-> state,
     fs    |-> fs,
     isNil |-> isNil,
     exit  |-> exit,
     out   |-> <<>>,
     read  |-> 0]

\* one iteration of the loop of main: run the line, record and report the
\* error.  Every use of a nil buffer pointer is a panic.
Report(r) ==
    IF r.e = Nil \/ r.w.exit # "running" THEN r
    ELSE [r EXCEPT !.w = Println([r.w EXCEPT !.state.lastErr = r.e],
                                 IF ~fSuppress /\ r.w.state.printErr
                                 THEN r.e ELSE "?")]

Loop(w, cmd, nbuf) ==
    Report(IF w.isNil
           THEN [w |-> [w EXCEPT !.exit = "panicked"], e |-> Panic,
                 disp |-> FALSE, byte |-> "", at |-> w.fb,
                 ctx |-> [cmd |-> cmd, cmdOffset |-> 0, addrs |-> <<>>]]
           ELSE run(w, cmd, nbuf))

----------------------------------------------------------------------------
(* History: what the properties need to know about the last command lines. *)

\* the bytes of the commands that change the view
MutBytes == {"d", "a", "i", "c", "j", "m", "t", "x", "s", "r"}
\* the bytes of the commands that only look at the buffer or the session
QuietBytes == {"p", "n", "l", "=", "#", "h", "H"}
Untracked == NoMark - 1
\* the lines of the example of a mark that outlives the deletion of another
\* line
Example == <<"2ka", "1d", "'ap", "2d", "'ap">>

\* the range a w or W writes
WriteRange(r) ==
    IF r.ctx.cmdOffset = 0 THEN <<0, FLen(r.at) - 1>>
    ELSE AddrRange(r.at, r.ctx.addrs).r

\* h: the history so far; w: the world before the line cmd, read with the
\* input lines nbuf; r: what Loop made of it
NextHist(h, w, cmd, nbuf, r) ==
    LET mutated == r.disp /\ r.e = Nil /\ r.byte \in MutBytes
        Last(n) == IF n.e # Nil \/ Len(n.lines) = 0 THEN Untracked
                   ELSE n.lines[Len(n.lines)]
    IN  [cmd   |-> cmd,         \* the command line
         nbuf  |-> nbuf,        \* the input lines behind it
         byte  |-> r.byte,      \* the command byte, "" if none was reached
         \* the range of the line, for a handler that takes a range or a line
         r     |-> IF r.disp THEN AddrRangeOrLine(r.at, r.ctx.addrs).r
                   ELSE <<0, 0>>,
         e     |-> r.e,         \* the error of the line
         read  |-> r.w.read,    \* the input lines the handler read
         disp  |-> r.disp,      \* a handler was dispatched
         \* the destination m and t resolve from their suffix (-1 for the
         \* address 0), Untracked if they resolve none
         dest  |-> IF r.disp /\ r.byte \in {"m", "t"}
                   THEN Last(ResolveAddrs(r.at, Suffix(r.ctx)))
                   ELSE Untracked,
         semi  |-> IndexOf(cmd, ";") # -1,
         \* the lines read so far are the first ex lines of Example (-1: not)
         ex    |-> IF h.ex >= 0 /\ h.ex < Len(Example) /\ cmd = Example[h.ex + 1]
                   THEN h.ex + 1 ELSE -1,
         pre   |-> Snapshot(w.fb),   \* the buffer before the line
         at    |-> r.at.addr,        \* the address after address resolution
         mut   |-> mutated,     \* a mutating command succeeded
         full  |-> r.disp /\ r.byte \in {"w", "W"}
                   /\ WriteRange(r) = <<0, FLen(r.at) - 1>>,
         prev  |-> [byte |-> h.byte, disp |-> h.disp, mut |-> h.mut,
                    semi |-> h.semi],
         prev2mut |-> h.prev.mut,
         \* the view before the last mutating command, while only quiet
         \* commands have followed it
         m     |-> IF mutated THEN [ok |-> TRUE, file |-> w.fb.file]
                   ELSE IF r.disp /\ r.byte \in QuietBytes /\ h.m.ok
                   THEN h.m
                   ELSE [ok |-> FALSE, file |-> <<>>],
         \* the pool index the last k gave each mark, NoMark if none did
         \* since the buffer was made, Untracked once u has run
         kset  |-> IF r.disp /\ r.byte = "u"
                   THEN [c \in MarkNames |-> Untracked]
                   ELSE IF r.disp /\ r.byte \in {"e", "E"} /\ r.e = Nil
                   THEN [c \in MarkNames |-> NoMark]
                   ELSE IF r.disp /\ r.byte = "k" /\ r.e = Nil
                   THEN [h.kset EXCEPT ![Ch(r.ctx.cmd, r.ctx.cmdOffset + 1)] =
                            At(r.at.file, At(r.ctx.addrs, Len(r.ctx.addrs) - 1))]
                   ELSE h.kset,
         kall  |-> IF r.disp /\ r.byte \in {"e", "E"} /\ r.e = Nil
                   THEN [c \in MarkNames |-> NoMark]
                   ELSE IF r.disp /\ r.byte = "k" /\ r.e = Nil
                   THEN [h.kall EXCEPT ![Ch(r.ctx.cmd, r.ctx.cmdOffset + 1)] =
                            At(r.at.file, At(r.ctx.addrs, Len(r.ctx.addrs) - 1))]
                   ELSE h.kall]

InitHist ==
    [cmd |-> "", nbuf |-> <<>>, byte |-> "", r |-> <<0, 0>>, e |-> Nil,
     read |-> 0, disp |-> FALSE,
     semi |-> FALSE, ex |-> 0, dest |-> Untracked,
     pre |-> Snapshot(NewFileBuffer(<<>>)), at |-> 0,
     mut |-> FALSE, full |-> FALSE,
     prev |-> [byte |-> "", disp |-> FALSE, mut |-> FALSE, semi |-> FALSE],
     prev2mut |-> FALSE,
     m |-> [ok |-> FALSE, file |-> <<>>],
     kset |-> [c \in MarkNames |-> NoMark],
     kall |-> [c \in MarkNames |-> NoMark]]

----------------------------------------------------------------------------
(* The actions.                                                            *)

\* the variables after the line cmd with the input lines nbuf, r being what
\* Loop made of them
After(cmd, nbuf, r) ==
    /\ buffer' = r.w.fb.buffer
    /\ file' = r.w.fb.file
    /\ dirty' = r.w.fb.dirty
    /\ addr' = r.w.fb.addr
    /\ marks' = r.w.fb.marks
    /\ undo' = Trim(r.w.fb).undo
    /\ cutBuf' = r.w.fb.cutBuf
    /\ isNil' = r.w.isNil
    /\ state' = r.w.state
    /\ fs' = r.w.fs
    /\ exit' = r.w.exit
    /\ out' = r.w.out
    /\ hist' = NextHist(hist, World, cmd, nbuf, r)

\* main reads the command line cmd (and, in input mode, the lines nbuf)
Main(cmd, nbuf) ==
    /\ exit = "running"
    /\ After(cmd, nbuf, Loop(World, cmd, nbuf))
    /\ steps' = steps + 1
    /\ UNCHANGED fSuppress

\* the start of main with the flag -s in S, the file system in F and the
\* file argument in N ("" for none)
InitState(name) ==
    [fileName |-> name, lastErr |-> Nil, printErr |-> FALSE,
     prompt |-> FALSE, winSize |-> 22]

InitWith(S, F, N) ==
    /\ fSuppress \in S
    /\ fs \in F
    /\ \E name \in N :
          LET w0 == [fb |-> NewFileBuffer(<<>>), state |-> InitState(name),
                     fs |-> fs, isNil |-> FALSE, exit |-> "running",
                     out |-> <<>>, read |-> 0]
              w1 == IF name = "" \/ (~Exists(w0, name) /\ ~fSuppress) THEN w0
                    ELSE FileToBuffer(w0, name)
          IN  /\ buffer = w1.fb.buffer
              /\ file = w1.fb.file
              /\ dirty = w1.fb.dirty
              /\ addr = w1.fb.addr
              /\ marks = w1.fb.marks
              /\ undo = w1.fb.undo
              /\ cutBuf = w1.fb.cutBuf
              /\ isNil = w1.isNil
              /\ state = w1.state
    /\ exit = "running"
    /\ out = <<>>
    /\ steps = 0
    /\ hist = InitHist

NoFiles == <<>>
FileF == [n \in {"f"} |-> <<"a", "b", "c">>]

\* the input blocks of a, i and c
Blocks == {<<>>, <<"x", "y">>}
None == {<<>>}

----------------------------------------------------------------------------
(* The specification of all commands: every handler of the cmds map, the   *)
(* forms of addresses and the lines that fail.  An action reads one of its *)
(* lines, with one of the input blocks, if fewer than the bound were read.  *)

CmdPrint ==
    /\ steps < MaxStepsAll
    /\ \E cmd \in {"", "p", "n", "$n", "1,2l", "2;+p", "=", "#", "%n"},
          nbuf \in None : Main(cmd, nbuf)
CmdDelete ==
    /\ steps < MaxStepsAll
    /\ \E cmd \in {"d", "2,3d", "1;2d", "9d"},
          nbuf \in None : Main(cmd, nbuf)
CmdInput ==
    /\ steps < MaxStepsAll
    /\ \E cmd \in {"a", "0a", "$a", "i", "0i", "2i", "1,2c", "ax"},
          nbuf \in Blocks : Main(cmd, nbuf)
CmdMark ==
    /\ steps < MaxStepsAll
    /\ \E cmd \in {"ka", "2kb", "k"},
          nbuf \in None : Main(cmd, nbuf)
CmdJoin ==
    /\ steps < MaxStepsAll
    /\ \E cmd \in {"j", "1,2j"},
          nbuf \in None : Main(cmd, nbuf)
CmdMove ==
    /\ steps < MaxStepsAll
    /\ \E cmd \in {"1m$", "2,3m0", "1,3m0", "1,2m2", "2t0", "1m"},
          nbuf \in None : Main(cmd, nbuf)
CmdYank ==
    /\ steps < MaxStepsAll
    /\ \E cmd \in {"1,2y", "x", "0x"},
          nbuf \in None : Main(cmd, nbuf)
CmdSub ==
    /\ steps < MaxStepsAll
    /\ \E cmd \in {"s/a/b/", "2,3s/c/a/", "s/z/a/", "s/a/b", "s"},
          nbuf \in None : Main(cmd, nbuf)
CmdUndo ==
    /\ steps < MaxStepsAll
    /\ \E cmd \in {"u"},
          nbuf \in None : Main(cmd, nbuf)
CmdWrite ==
    /\ steps < MaxStepsAll
    /\ \E cmd \in {"w", "1,2w g", "W f", "wq"},
          nbuf \in None : Main(cmd, nbuf)
CmdEdit ==
    /\ steps < MaxStepsAll
    /\ \E cmd \in {"e f", "E f", "E g", "r f", "0r f", "e"},
          nbuf \in None : Main(cmd, nbuf)
CmdSession ==
    /\ steps < MaxStepsAll
    /\ \E cmd \in {"h", "H", "P", "f", "z", "1z1", "!ls", "D"},
          nbuf \in None : Main(cmd, nbuf)
CmdQuit ==
    /\ steps < MaxStepsAll
    /\ \E cmd \in {"q", "Q"},
          nbuf \in None : Main(cmd, nbuf)
CmdBad ==
    /\ steps < MaxStepsAll
    /\ \E cmd \in {"1,", "'ap", "/q/p", "/b/p", "?b?p", "?q?p", "v"},
          nbuf \in None : Main(cmd, nbuf)

Init == InitWith(BOOLEAN, {NoFiles, FileF}, {"", "f"})

Next ==
    \/ CmdPrint
    \/ CmdDelete
    \/ CmdInput
    \/ CmdMark
    \/ CmdJoin
    \/ CmdMove
    \/ CmdYank
    \/ CmdSub
    \/ CmdUndo
    \/ CmdWrite
    \/ CmdEdit
    \/ CmdSession
    \/ CmdQuit
    \/ CmdBad

Spec == Init /\ [][Next]_vars

----------------------------------------------------------------------------
(* Undo: the editor is started on the file f (lines a, b, c) and reads     *)
(* mutating commands of every kind, commands that only look, and u.        *)

UndoMut ==
    /\ steps < MaxSteps
    /\ \E cmd \in {"d", "1;2d", "1,2j", "1m$", "2;3t0", "x", "1;2x",
                   "s/a/b/", "2;r f"},
          nbuf \in None : Main(cmd, nbuf)
UndoInput ==
    /\ steps < MaxSteps
    /\ \E cmd \in {"a", "2i", "2;3c"},
          nbuf \in Blocks : Main(cmd, nbuf)
UndoYank ==
    /\ steps < MaxSteps
    /\ \E cmd \in {"1,2y"},
          nbuf \in None : Main(cmd, nbuf)
UndoQuiet ==
    /\ steps < MaxSteps
    /\ \E cmd \in {"p", "1,2n", "l", "2=", "#", "h", "H"},
          nbuf \in None : Main(cmd, nbuf)
UndoU ==
    /\ steps < MaxSteps
    /\ \E cmd \in {"u"},
          nbuf \in None : Main(cmd, nbuf)

InitLoaded == InitWith({FALSE}, {FileF}, {"f"})

NextUndo ==
    \/ UndoMut
    \/ UndoInput
    \/ UndoYank
    \/ UndoQuiet
    \/ UndoU

SpecUndo == InitLoaded /\ [][NextUndo]_vars

----------------------------------------------------------------------------
(* The dirty flag: mutations, writes of the whole view and of a part of    *)
(* it, loads, u, and the commands that leave the view alone.               *)

DirtyMut ==
    /\ steps < MaxSteps
    /\ \E cmd \in {"d", "1,2j", "s/a/b/"},
          nbuf \in None : Main(cmd, nbuf)
DirtyInput ==
    /\ steps < MaxSteps
    /\ \E cmd \in {"a"},
          nbuf \in Blocks : Main(cmd, nbuf)
DirtyWrite ==
    /\ steps < MaxSteps
    /\ \E cmd \in {"w", "1,2w", "W g", "2W g"},
          nbuf \in None : Main(cmd, nbuf)
DirtyEdit ==
    /\ steps < MaxSteps
    /\ \E cmd \in {"e f", "E f", "E g", "r f"},
          nbuf \in None : Main(cmd, nbuf)
DirtySame ==
    /\ steps < MaxSteps
    /\ \E cmd \in {"p", "n", "l", "=", "ka", "y", "z", "h", "H", "P", "f",
                   "#", "j", "s/z/b/", "9d", "x"},
          nbuf \in None : Main(cmd, nbuf)
DirtyU ==
    /\ steps < MaxSteps
    /\ \E cmd \in {"u"},
          nbuf \in None : Main(cmd, nbuf)
DirtyQuit ==
    /\ steps < MaxSteps
    /\ \E cmd \in {"q", "Q"},
          nbuf \in None : Main(cmd, nbuf)

NextDirty ==
    \/ DirtyMut
    \/ DirtyInput
    \/ DirtyWrite
    \/ DirtyEdit
    \/ DirtySame
    \/ DirtyU
    \/ DirtyQuit

SpecDirty == InitLoaded /\ [][NextDirty]_vars

----------------------------------------------------------------------------
(* Marks: k, the commands that move, remove and restore lines, u and a     *)
(* load.                                                                   *)

MarkSet ==
    /\ steps < MaxSteps
    /\ \E cmd \in {"ka", "2ka", "3kb"},
          nbuf \in None : Main(cmd, nbuf)
MarkEdit ==
    /\ steps < MaxSteps
    /\ \E cmd \in {"d", "1d", "2,3d", "1m$", "3m0", "s/b/x/", "2s/b/x/",
                   "2,3j", "1,2y", "0x", "E f"},
          nbuf \in None : Main(cmd, nbuf)
MarkInput ==
    /\ steps < MaxSteps
    /\ \E cmd \in {"1i", "a"},
          nbuf \in Blocks : Main(cmd, nbuf)
MarkU ==
    /\ steps < MaxSteps
    /\ \E cmd \in {"u"},
          nbuf \in None : Main(cmd, nbuf)

NextMark ==
    \/ MarkSet
    \/ MarkEdit
    \/ MarkInput
    \/ MarkU

SpecMark == InitLoaded /\ [][NextMark]_vars

----------------------------------------------------------------------------
(* The example: the file f (lines a, b, c), a mark, deletions, prints of   *)
(* the marked line and u, for as many lines as the example has.            *)

ScriptLine ==
    /\ steps < MaxScript
    /\ \E cmd \in {"2ka", "1d", "2d", "'ap", "p", "u"},
          nbuf \in None : Main(cmd, nbuf)

SpecScript == InitLoaded /\ [][ScriptLine]_vars

----------------------------------------------------------------------------
(* The address 0: the file f (lines a, b, c) and lines that give 0 as the  *)
(* address of a command or as the destination of m, t and r.               *)

ZeroLine ==
    /\ steps < MaxStepsAll
    /\ \E cmd \in {"0p", "0n", "0l", "0d", "0ka", "0=", "0j", "0s/a/b/",
                   "0y", "0z", "0c", "2,3m0", "2t0", "0r f", "2p"},
          nbuf \in Blocks : Main(cmd, nbuf)

SpecZero == InitLoaded /\ [][ZeroLine]_vars

----------------------------------------------------------------------------
(* Lines and input blocks: address lists with ';' and ',', s without a     *)
(* match, t and the deletion of what it inserted, j, a, i and c with and   *)
(* without a suffix and input lines, and c and w with a single address,    *)
(* from every start of main.                                               *)

LinesPlain ==
    /\ steps < MaxStepsAll
    /\ \E cmd \in {"2;+p", "2,+p", "3;-p", "2;/a/p", "2,/a/p", "9;1p", ",p",
                   "s/z/a/", "2,3s/z/a/", "2t0", "1,2t$", "1t2", "2t2",
                   "d", "3d", "1,2d", "4,5d", "j", "2j", "1,2j", "2,3j",
                   "1,3j", "1w g", "2w g"},
          nbuf \in None : Main(cmd, nbuf)

LinesInput ==
    /\ steps < MaxStepsAll
    /\ \E cmd \in {"a", "2i", "1,3c", "c", "1c", "3c", "ax", "2ix", "1,2cx"},
          nbuf \in {<<>>, <<"hello", "world">>} : Main(cmd, nbuf)

NextLines ==
    \/ LinesPlain
    \/ LinesInput

SpecLines == Init /\ [][NextLines]_vars

----------------------------------------------------------------------------
(* Files: the file f (lines a, b, c), input lines of which some end with a *)
(* carriage return or are empty, w and W to f and g, e and E of them, and  *)
(* f with and without a file name.                                         *)

FileLine ==
    /\ steps < MaxSteps
    /\ \E cmd \in {"a", "d", "w", "w g", "1,2w g", "W g", "e f", "e g",
                   "E g", "f", "f g"},
          nbuf \in {<<>>, <<"x", "">>, <<"y\r">>} : Main(cmd, nbuf)

SpecFile == InitLoaded /\ [][FileLine]_vars

----------------------------------------------------------------------------
(* Properties.                                                             *)

\* the buffer as a FileBuffer
FB == World.fb

\* the line just read was dispatched to the handler of u / the next line is
UndoRan == hist.disp /\ hist.byte = "u"
UndoStep == hist'.disp /\ hist'.byte = "u"

\* C1, as the claim states it: a mutating command (d, a, i, c, j, m, t, x,
\* s, r), however addressed, followed by u leaves the view, the current
\* address and the dirty flag as they were before the command line was read.
C1_Orig ==
    [][(hist.mut /\ UndoStep) =>
          /\ file' = hist.pre.file
          /\ addr' = hist.pre.addr
          /\ dirty' = hist.pre.dirty]_vars

\* C1, amended: a mutating command followed by u leaves the view and the
\* dirty flag as they were before the command line was read, and the current
\* address as the address list of the line left it: where it was before the
\* line when the list has no ';'.
C1_UndoRestores ==
    [][(hist.mut /\ UndoStep) =>
          /\ file' = hist.pre.file
          /\ dirty' = hist.pre.dirty
          /\ addr' = hist.at
          /\ (~hist.semi => addr' = hist.pre.addr)]_vars

\* u has undone a mutating command whose address list had a ';' that moved
\* the current address
C1_Witness ==
    /\ UndoRan
    /\ hist.prev.mut
    /\ hist.prev.semi
    /\ file = <<0, 1, 2>>
    /\ ~dirty
    /\ addr # 0

\* C2: after a mutating command and any number of commands that only look
\* (p, n, l, =, #, h, H), u restores the view that held before the mutating
\* command.
C2_UndoRevertsLastMutation ==
    [][(hist.m.ok /\ UndoStep) => file' = hist.m.file]_vars

\* C3: after a mutating command, u followed at once by u brings the view, the
\* current address and the dirty flag back to what the command left.
C3_UndoTwice ==
    [][(UndoRan /\ hist.prev.mut /\ UndoStep) =>
          /\ file' = hist.pre.file
          /\ addr' = hist.pre.addr
          /\ dirty' = hist.pre.dirty]_vars

\* u has run twice after a mutating command that changed the view, and the
\* view is the changed one
C3_Witness ==
    /\ UndoRan
    /\ hist.prev.byte = "u"
    /\ hist.prev.disp
    /\ hist.prev2mut
    /\ hist.pre.file = <<0, 1, 2>>
    /\ file # <<0, 1, 2>>

\* the current address is a line of the view, or 0 in an empty view
AddrOK == IF FLen(FB) > 0 THEN addr \in 0..(FLen(FB) - 1) ELSE addr = 0

\* C4: after a successful mutating command the current address lies in
\* [0, N) when the view has N > 0 lines and is 0 when it has none.
C4_AddrInView == (hist.mut /\ ~isNil) => AddrOK

\* d has deleted the last line of a view and left lines behind it
C4_Witness ==
    /\ hist.mut
    /\ hist.byte = "d"
    /\ hist.pre.file = <<0, 1, 2>>
    /\ file = <<0, 1>>
    /\ addr = 0

\* the last line read ran a handler to its end / the next one does
Done == hist.disp /\ hist.e = Nil
DoneStep == hist'.disp /\ hist'.e = Nil

\* C5: apart from u, the dirty flag goes from true to false only in a
\* successful w or W of the whole view or a successful e or E; a w or W of a
\* part of the view leaves it true.
C5_DirtyCleared ==
    [][(dirty /\ ~dirty') =>
          /\ DoneStep
          /\ \/ hist'.byte \in {"e", "E", "u"}
             \/ hist'.byte \in {"w", "W"} /\ hist'.full]_vars

\* the bytes of the commands that never change the view
SameBytes == {"p", "n", "l", "=", "k", "y", "z", "h", "H", "P", "f", "#"}

C7_IndicesValid ==
    ~isNil =>
        /\ \A i \in 1..Len(file) : file[i] \in 0..(Len(buffer) - 1)
        /\ \A c \in MarkNames :
              marks[c] # NoMark => marks[c] \in 0..(Len(buffer) - 1)
        /\ \A i \in 1..Len(cutBuf) : cutBuf[i] \in 0..(Len(buffer) - 1)

\* lines were inserted while a mark was set
C7_Witness ==
    /\ \E c \in MarkNames : marks[c] # NoMark
    /\ Len(buffer) > 3
    /\ \E i \in 1..Len(file) : file[i] >= 3

\* C8: the view holds no pool index twice.
C8_NoDuplicates ==
    \A i, j \in 1..Len(file) : i # j => file[i] # file[j]

\* C9: across every command but e and E the pool keeps what it held: the
\* pool before the command is a prefix of the pool after it.
C9_PoolAppendOnly ==
    [][~(hist'.disp /\ hist'.byte \in {"e", "E"}) =>
          /\ Len(buffer') >= Len(buffer)
          /\ SubSeq(buffer', 1, Len(buffer)) = buffer]_vars

\* s has put the substituted line at the end of the pool
C9_Witness ==
    /\ hist.mut
    /\ hist.byte = "s"
    /\ buffer = <<"a", "b", "c", "b">>

\* what 'c resolves to, for the mark set to the pool index k (NoMark if k
\* never set it)
MarkResolves(c, k) ==
    LET Is(r) ==
            IF k = NoMark THEN r.e = "no such mark"
            ELSE IF \E i \in 1..Len(file) : file[i] = k
            THEN r.e = Nil /\ ~OOB(FB, r.line) /\ At(file, r.line) = k
            ELSE r.e = "mark was cleared"
    IN  Is(ResolveAddr(FB, "'" \o c))

\* C10, as the claim states it: a mark set by k resolves to the view
\* position of its pool line, fails with "mark was cleared" exactly when
\* that line is not in the view, and with "no such mark" exactly when k
\* never set it in this buffer.
C10_Orig == \A c \in MarkNames : MarkResolves(c, hist.kall[c])

\* C10, amended: as long as no u has run since the mark was last set in this
\* buffer, the mark resolves to the view position of its pool line, fails
\* with "mark was cleared" exactly when that line is not in the view, and
\* with "no such mark" exactly when k never set it.
C10_MarkResolves ==
    \A c \in MarkNames :
        hist.kset[c] # Untracked => MarkResolves(c, hist.kset[c])

\* the second line was marked and the first one deleted: the mark is on the
\* first line of the view now
C10_Witness ==
    /\ hist.kset["a"] = 1
    /\ file = <<1, 2>>
    /\ marks["a"] = 1

\* C11: after d over a range that covers a marked line (every view slot of
\* the mark's pool line lies in the range), looking up the mark fails with
\* "mark was cleared"; after u right behind that d the mark resolves again,
\* to the position the line had before the d, in the restored view.
C11_MarkClearedRestored ==
    [][LET Covered(c, pf, pm, r) ==
               /\ pm[c] # NoMark
               /\ \E i \in 1..Len(pf) : pf[i] = pm[c]
               /\ \A i \in 1..Len(pf) : pf[i] = pm[c] => (i - 1) \in r[1]..r[2]
           Look(c) == GetMark([file |-> file', marks |-> marks'], c)
       IN  /\ (hist'.mut /\ hist'.byte = "d") =>
                 \A c \in MarkNames :
                     Covered(c, file, marks, hist'.r) =>
                         Look(c).e = "mark was cleared"
           /\ (hist.mut /\ hist.byte = "d" /\ UndoStep) =>
                 \A c \in MarkNames :
                     Covered(c, hist.pre.file, hist.pre.marks, hist.r) =>
                         /\ Look(c).e = Nil
                         /\ file' = hist.pre.file
                         /\ Look(c).l =
                               GetMark([file |-> hist.pre.file,
                                        marks |-> hist.pre.marks], c).l]_vars

\* u has run right behind a d that had removed the line marked a, the second
\* line of the file, and the mark is on the second line of the view again
C11_Witness ==
    /\ UndoRan
    /\ hist.prev.byte = "d"
    /\ hist.prev.mut
    /\ marks["a"] = 1
    /\ ~\E i \in 1..Len(hist.pre.file) : hist.pre.file[i] = 1
    /\ file = <<0, 1, 2>>
    /\ GetMark(FB, "a").l = 1

\* the lines of the view
Contents == [k \in 1..Len(file) |-> Line(FB, k - 1)]

\* C12, as the claim states it: from the buffer a, b, c, 2ka marks line 2;
\* 1d leaves b, c and 'ap prints b; 2d leaves b and 'ap fails with the
\* cleared-mark error and prints "?".
C12_Orig ==
    /\ hist.ex = 1 => (hist.e = Nil /\ marks["a"] = At(file, 1))
    /\ hist.ex = 2 => (hist.e = Nil /\ Contents = <<"b", "c">>)
    /\ hist.ex = 3 => (hist.e = Nil /\ out = <<"b">>)
    /\ hist.ex = 4 => (hist.e = Nil /\ Contents = <<"b">>)
    /\ hist.ex = 5 => (hist.e = "mark was cleared" /\ out = <<"?">>)

\* C12, amended: from the buffer a, b, c, 2ka marks line 2; 1d leaves b, c
\* and 'ap prints b; 2d leaves b, the marked line, and 'ap prints b again.
C12_MarkExample ==
    /\ hist.ex = 1 => (hist.e = Nil /\ marks["a"] = At(file, 1))
    /\ hist.ex = 2 => (hist.e = Nil /\ Contents = <<"b", "c">>)
    /\ hist.ex = 3 => (hist.e = Nil /\ out = <<"b">>)
    /\ hist.ex = 4 => (hist.e = Nil /\ Contents = <<"b">>)
    /\ hist.ex = 5 => (hist.e = Nil /\ out = <<"b">> /\ Contents = <<"b">>)

\* the five lines of the example were read, and the last one printed
C12_Witness ==
    /\ hist.ex = 5
    /\ steps = 5
    /\ hist.cmd = "'ap"
    /\ file = <<1>>
    /\ marks["a"] = 1
    /\ Len(out) = 1

\* C13: after a successful d of the range [a, b] the current address is a if
\* a is still a line of the shrunken view, else the last line N - 1, and 0
\* when the view became empty.
C13_DeleteAddr ==
    (hist.mut /\ hist.byte = "d" /\ ~isNil) =>
        addr = IF Len(file) = 0 THEN 0
               ELSE IF hist.r[1] < Len(file) THEN hist.r[1]
               ELSE Len(file) - 1

\* the lines of the view before the last command line (the pool keeps them)
OldContents ==
    [k \in 1..Len(hist.pre.file) |-> At(buffer, At(hist.pre.file, k - 1))]

\* C14: for m with a valid range [a, b] and a destination d (-1 for the
\* address 0): if d < a or d > b, m succeeds and the lines of the view are
\* the old ones with the lines a..b taken out and put back, in order, right
\* behind the old line d (in front when d = -1), so that 1,3m0 on three
\* lines succeeds and changes nothing; if a <= d <= b, m fails with "cannot
\* move lines to within their own range" and the view is unchanged.
C14_Move ==
    LET a == hist.r[1]
        b == hist.r[2]
        d == hist.dest
        n == Len(hist.pre.file)
        c == OldContents
        moved == IF d < a
                 THEN SubSeq(c, 1, d + 1) \o SubSeq(c, a + 1, b + 1)
                      \o SubSeq(c, d + 2, a) \o SubSeq(c, b + 2, n)
                 ELSE SubSeq(c, 1, a) \o SubSeq(c, b + 2, d + 1)
                      \o SubSeq(c, a + 1, b + 1) \o SubSeq(c, d + 2, n)
    IN  (/\ hist.disp /\ hist.byte = "m"
         /\ 0 <= a /\ a <= b /\ b < n
         /\ d \in (-1)..(n - 1))
        => IF d < a \/ d > b
           THEN hist.e = Nil /\ Contents = moved
           ELSE /\ hist.e = "cannot move lines to within their own range"
                /\ file = hist.pre.file

\* C15: a successful s over the range [a, b] puts the substituted text of
\* every matching line of the range at the view position of that line,
\* leaves every other line, in the range or not, with its text at its
\* position, and keeps the length of the view, whatever a is.  (The s lines
\* of the model are of the form s/pattern/replacement/ behind addresses
\* without a slash.)
C15_SubInPlace ==
    LET sfx == From(hist.cmd, IndexOf(hist.cmd, "/"))
        i0  == IndexOf(From(sfx, 1), "/") + 1
        i1  == IndexOf(From(sfx, i0 + 1), "/") + i0 + 1
        mat == SubSeq(sfx, 2, i0)
        rep == SubSeq(sfx, i0 + 2, i1)
        old == OldContents
    IN  (hist.mut /\ hist.byte = "s") =>
            /\ Len(file) = Len(hist.pre.file)
            /\ \A i \in 0..(Len(old) - 1) :
                  At(Contents, i) =
                      IF i \in hist.r[1]..hist.r[2] /\ Contains(At(old, i), mat)
                      THEN ReplaceAll(At(old, i), mat, rep)
                      ELSE At(old, i)

\* C16: a with the address 0 puts the input lines in front of all the lines
\* of the view, and a with the address $ puts them behind the last line.
C16_AppendAtEnds ==
    (hist.disp /\ hist.byte = "a" /\ Len(hist.nbuf) > 0) =>
        /\ hist.cmd = "0a" =>
              (hist.e = Nil /\ Contents = hist.nbuf \o OldContents)
        /\ (hist.cmd = "$a" /\ Len(hist.pre.file) > 0) =>
              (hist.e = Nil /\ Contents = OldContents \o hist.nbuf)

\* the view, the pool, the current address, the dirty flag and the marks
\* are what they were before the last command line
Unchanged ==
    /\ Snapshot(FB) = hist.pre
    /\ Contents = OldContents

\* C17: on an empty buffer p, d and n fail with "line is out of bounds" and
\* change nothing, and a and i with the address 0 (the line -1, before the
\* first line) succeed and make their input lines the lines of the view.
C17_EmptyBuffer ==
    (Len(hist.pre.file) = 0 /\ hist.cmd # "" /\ steps > 0 /\ ~isNil
     /\ exit = "running") =>
        /\ hist.cmd \in {"p", "d", "n"} => (hist.e = ErrOOB /\ Unchanged)
        /\ (hist.cmd \in {"0a", "0i"} /\ Len(hist.nbuf) > 0) =>
              (hist.e = Nil /\ Contents = hist.nbuf)

\* C18: r with the address 0 succeeds and puts the lines of the file in
\* front of the lines of the view, which follow them in their old order.
C18_ReadAtZero ==
    (hist.cmd = "0r f" /\ "f" \in DOMAIN fs /\ ~isNil /\ exit = "running") =>
        /\ hist.e = Nil
        /\ Contents = fs["f"] \o OldContents

\* C19: the address 0 resolves to -1; as the destination of m and t and as
\* the address of r it is accepted, and as the address of p, n, l, d, k, =,
\* j, s, y, z and c it is rejected with "line is out of bounds" and nothing
\* changes.
C19_ZeroAddress ==
    /\ ResolveAddr(FB, "0").line = -1
    /\ hist.cmd \in {"2,3m0", "2t0", "0r f"} => hist.e = Nil
    /\ hist.cmd \in {"0p", "0n", "0l", "0d", "0ka", "0=", "0j", "0s/a/b/",
                     "0y", "0z", "0c"} => (hist.e = ErrOOB /\ Unchanged)

\* C20: /re/ resolves to the first matching line in the order cur, cur+1,
\* ..., N-1, 0, ..., cur-1 and ?re? to the first one in the order cur,
\* cur-1, ..., 0, N-1, ..., cur+1; if no line matches, as in an empty view,
\* the resolution fails with "regexp not found" and the buffer is unchanged.
\* This is stated of every buffer the editor reaches, for the patterns a, b,
\* x and q, and of the command lines that print the line a search finds.
C20_Search ==
    LET Text(fl, j) == At(buffer, At(fl, j))
        Match(fl, p) == {j \in 0..(Len(fl) - 1) : Contains(Text(fl, j), p)}
        \* how many lines the scan passes before it reaches the line j
        Dist(fl, cur, sg, j) == (sg * (j - cur)) % Len(fl)
        First(fl, cur, p, sg) ==
            {l \in Match(fl, p) :
                \A j \in Match(fl, p) :
                    Dist(fl, cur, sg, l) <= Dist(fl, cur, sg, j)}
        Is(r, F) ==
            IF F = {} THEN r.e = "regexp not found" ELSE r.e = Nil /\ r.line \in F
        Ran(F) ==
            IF F = {} THEN hist.e = "regexp not found" /\ Unchanged
            ELSE /\ hist.e = Nil
                 /\ addr \in F
                 /\ out = <<Text(file, addr)>>
                 /\ file = hist.pre.file
    IN  (~isNil /\ exit = "running") =>
            /\ \A p \in {"a", "b", "x", "q"} :
                  /\ Is(ResolveAddr(FB, "/" \o p \o "/"), First(file, addr, p, 1))
                  /\ Is(ResolveAddr(FB, "?" \o p \o "?"), First(file, addr, p, -1))
            /\ hist.cmd \in {"/b/p", "/q/p"} =>
                  Ran(First(hist.pre.file, hist.pre.addr, Ch(hist.cmd, 1), 1))
            /\ hist.cmd \in {"?b?p", "?q?p"} =>
                  Ran(First(hist.pre.file, hist.pre.addr, Ch(hist.cmd, 1), -1))

\* two lines of the view match b, the current line is not one of them, and
\* the searches forward and backward find different lines
C20_Witness ==
    /\ ~isNil
    /\ Cardinality({i \in 1..Len(file) : Contains(Line(FB, i - 1), "b")}) = 2
    /\ ~Contains(Line(FB, addr), "b")
    /\ ResolveAddr(FB, "/b/").e = Nil
    /\ ResolveAddr(FB, "/b/").line # ResolveAddr(FB, "?b?").line

\* C21: in an address list A;B the current address is set to A before B is
\* parsed, so that B (".", a relative address or a search) is resolved from
\* A, and the list fails with "line is out of bounds" if A is no line of the
\* view; in A,B the address A changes nothing and B is resolved from the
\* current address.  This is stated of every buffer the editor reaches, for
\* the lists 2;+ 2;/b/ 3;. $;- $;/b/ 9;+ and the same with ',', and of the
\* lines 2;+p, 2,+p and 9;1p.
C21_Separators ==
    LET IsList(l, a, b, f) ==
            IF b.e # Nil THEN l.e = b.e
            ELSE l.e = Nil /\ l.lines = <<a, b.line>> /\ l.f = f
        Semi(A, B, a) ==
            IF OOB(FB, a)
            THEN ResolveAddrs(FB, A \o ";" \o B \o "p").e = ErrOOB
            ELSE IsList(ResolveAddrs(FB, A \o ";" \o B \o "p"), a,
                        ResolveAddr([FB EXCEPT !.addr = a], B),
                        [FB EXCEPT !.addr = a])
        Comma(A, B, a) ==
            IsList(ResolveAddrs(FB, A \o "," \o B \o "p"), a,
                   ResolveAddr(FB, B), FB)
        Both(A, B, a) == Semi(A, B, a) /\ Comma(A, B, a)
        N == Len(hist.pre.file)
    IN  (~isNil /\ exit = "running") =>
            /\ \A l \in {<<"2", "+">>, <<"2", "/b/">>, <<"3", ".">>,
                         <<"$", "-">>, <<"$", "/b/">>, <<"9", "+">>} :
                  Both(l[1], l[2], ResolveAddr(FB, l[1]).line)
            /\ (hist.cmd = "2;+p" /\ N >= 3) =>
                  /\ hist.e = Nil
                  /\ out = SubSeq(OldContents, 2, 3)
                  /\ addr = 2
            /\ (hist.cmd = "2,+p" /\ hist.pre.addr + 1 \in 1..(N - 1)) =>
                  /\ hist.e = Nil
                  /\ out = SubSeq(OldContents, 2, hist.pre.addr + 2)
                  /\ addr = hist.pre.addr + 1
            /\ (hist.cmd = "9;1p" /\ N < 9 /\ steps > 0) =>
                  /\ hist.e = ErrOOB
                  /\ ~hist.disp
                  /\ Unchanged

\* 2;+p has printed the second and third lines of the view, the third being
\* the line after its address 2, from a current address whose successor is
\* another line, and 2,+p would now resolve its second address to another
\* line than 2;+p
C21_Witness ==
    /\ hist.cmd = "2;+p"
    /\ hist.e = Nil
    /\ hist.pre.addr # 1
    /\ addr = 2
    /\ out = <<Line(FB, 1), Line(FB, 2)>>
    /\ ResolveAddrs(FB, "2,+p").lines # ResolveAddrs(FB, "2;+p").lines

\* C22: on an empty buffer a with the input lines hello and world succeeds
\* and makes them the view, with the current address on world; and ,p on
\* the view hello, world then prints both lines, hello then world, and leaves
\* the current address at 1.
C22_AppendThenPrint ==
    (steps > 0 /\ ~isNil /\ exit = "running") =>
        /\ (hist.cmd = "a" /\ Len(hist.pre.file) = 0
            /\ hist.nbuf = <<"hello", "world">>) =>
              /\ hist.e = Nil
              /\ Contents = <<"hello", "world">>
              /\ addr = 1
        /\ (hist.cmd = ",p" /\ OldContents = <<"hello", "world">>
            /\ hist.pre.addr = 1) =>
              /\ hist.e = Nil
              /\ out = <<"hello", "world">>
              /\ addr = 1

\* C23: when the handler of a command line returns an error, a u that
\* follows leaves the view, the current address, the dirty flag and the marks
\* as they were when the handler was called, that is as the address list of
\* the line left them, whatever the handler changed before it failed.
C23_UndoAfterError ==
    [][(hist.disp /\ hist.e # Nil /\ UndoStep) =>
          /\ file' = hist.pre.file
          /\ dirty' = hist.pre.dirty
          /\ marks' = hist.pre.marks
          /\ addr' = hist.at]_vars

\* u has run after an m that failed once it had moved the current address,
\* and the address is not the one the failed m left
C23_Witness ==
    /\ UndoRan
    /\ hist.prev.disp
    /\ hist.prev.byte = "m"
    /\ ~hist.prev.mut
    /\ hist.pre.addr # addr
    /\ hist.pre.file = file

\* C24: after any line other than q, Q and w or W with the suffix q, whether
\* it succeeded, failed or was malformed, the editor is still running and
\* has recorded the error of the line, if any.
C24_OnlyQuitEnds ==
    (steps > 0 /\ hist.cmd \notin {"q", "Q", "wq"}) =>
        /\ exit = "running"
        /\ hist.e # Nil => state.lastErr = hist.e

\* C25: q on a buffer whose dirty flag is set fails with "warning: file
\* modified" and the session goes on with the buffer unchanged, also when
\* the line before was a refused q; q on a buffer whose dirty flag is not
\* set ends the session, and Q ends it whatever the flag is.
C25_Quit ==
    (steps > 0 /\ ~isNil) =>
        /\ hist.cmd = "q" =>
              IF hist.pre.dirty
              THEN /\ hist.e = "warning: file modified"
                   /\ exit = "running"
                   /\ Unchanged
              ELSE hist.e = Nil /\ exit = "exited"
        /\ hist.cmd = "Q" => (hist.e = Nil /\ exit = "exited")

\* q has been refused twice in a row and the editor is running
C25_Witness ==
    /\ hist.cmd = "q"
    /\ hist.prev.byte = "q"
    /\ hist.prev.disp
    /\ hist.e = "warning: file modified"
    /\ dirty
    /\ exit = "running"

\* C26: s over a range of the view in which no line matches the pattern
\* fails with "no match" and leaves the view, the marks, the dirty flag and
\* the current address as they were before the line.  (No line of the model
\* holds a z.)
C26_SubNoMatch ==
    LET N == Len(hist.pre.file)
    IN  (hist.cmd \in {"s/z/a/", "2,3s/z/a/"} /\ hist.disp /\ ~isNil
         /\ 0 <= hist.r[1] /\ hist.r[1] <= hist.r[2] /\ hist.r[2] < N) =>
            /\ hist.e = "no match"
            /\ Unchanged

\* C27: s/a/b, the substitution without its third delimiter, has the effect
\* on the buffer that s/a/b/ has: after s/a/b the editor is running, and on
\* every buffer the editor reaches the two lines leave the same buffer and
\* the same error.
C27_SubNoThirdDelimiter ==
    LET Same(x, y) == x.w.fb = y.w.fb /\ x.e = y.e /\ x.w.exit = y.w.exit
    IN  /\ (steps > 0 /\ hist.cmd = "s/a/b" /\ Len(hist.pre.file) > 0) =>
              exit = "running"
        /\ (~isNil /\ exit = "running") =>
              Same(Loop(World, "s/a/b", <<>>), Loop(World, "s/a/b/", <<>>))

\* C28: a, i and c whose first input line is "." return no error and leave
\* the view, the dirty flag and the current address as they were, c not
\* deleting its range; a and i with a suffix are refused before any input
\* line is read and change nothing in the buffer; c with a suffix is not
\* refused: it reads its input lines and replaces its range by them.
C28_InputMode ==
    LET N == Len(hist.pre.file)
    IN  (steps > 0 /\ ~isNil /\ exit = "running") =>
            /\ (hist.cmd \in {"a", "2i", "c", "1,3c", "1,2cx"}
                /\ hist.nbuf = <<>>) =>
                  /\ hist.disp
                  /\ hist.e = Nil
                  /\ hist.read = 1
                  /\ Unchanged
            /\ hist.cmd \in {"ax", "2ix"} =>
                  /\ hist.disp
                  /\ hist.e = hist.byte \o " only takes a single line addres"
                  /\ hist.read = 0
                  /\ Unchanged
            /\ (hist.cmd = "1,2cx" /\ hist.nbuf # <<>> /\ N >= 2) =>
                  /\ hist.e = Nil
                  /\ hist.read = Len(hist.nbuf) + 1
                  /\ Contents = hist.nbuf \o SubSeq(OldContents, 3, N)

\* 1,3c has read a lone "." and the three lines of its range are still the
\* view, after an a that was refused for its suffix
C28_Witness ==
    /\ hist.cmd = "1,3c"
    /\ hist.nbuf = <<>>
    /\ hist.prev.byte = "a"
    /\ hist.prev.disp
    /\ ~hist.prev.mut
    /\ hist.e = Nil
    /\ Contents = <<"a", "b", "c">>
    /\ ~dirty

\* C29: when t has copied the range [a, b] after the destination d (to the
\* top of the view for the address 0) and the next line deletes exactly the
\* lines t inserted, the lines d + 1 to d + 1 + (b - a), the view is the one
\* from before t: the same pool indices in the same order.
C29_CopyThenDelete ==
    [][(/\ hist.byte = "t"
        /\ hist.mut
        /\ hist'.byte = "d"
        /\ hist'.disp
        /\ hist'.e = Nil
        /\ hist'.r = <<hist.dest + 1,
                       hist.dest + 1 + (hist.r[2] - hist.r[1])>>) =>
          file' = hist.pre.file]_vars

\* d has deleted the two lines a t had put at the end of the view a, b, c:
\* the view is the one of the file again and the pool keeps the two copies
C29_Witness ==
    /\ hist.prev.byte = "t"
    /\ hist.prev.mut
    /\ hist.cmd = "4,5d"
    /\ hist.e = Nil
    /\ file = <<0, 1, 2>>
    /\ buffer = <<"a", "b", "c", "a", "b">>
    /\ dirty

\* C30: j over the lines a to b of the view, a < b, puts one line, their
\* concatenation in order, in the place of line a, keeps the lines before
\* and after the range (the same pool indices, in order), makes the view
\* b - a lines shorter, sets the dirty flag and leaves the current address on
\* the joined line; j over a single line changes nothing.  (a and b are
\* 0-based here.)
C30_Join ==
    LET N == Len(hist.pre.file)
        a == hist.r[1]
        b == hist.r[2]
        RECURSIVE Cat(_, _)
        Cat(i, j) == IF i > j THEN "" ELSE OldContents[i] \o Cat(i + 1, j)
    IN  (hist.byte = "j" /\ hist.disp /\ ~isNil /\ exit = "running"
         /\ 0 <= a /\ a <= b /\ b < N) =>
            IF a < b
            THEN /\ hist.e = Nil
                 /\ Len(file) = N - (b - a)
                 /\ Contents[a + 1] = Cat(a + 1, b + 1)
                 /\ SubSeq(file, 1, a) = SubSeq(hist.pre.file, 1, a)
                 /\ SubSeq(file, a + 2, Len(file)) =
                        SubSeq(hist.pre.file, b + 2, N)
                 /\ dirty
                 /\ addr = a
            ELSE hist.e = Nil /\ Unchanged

\* 2,3j has joined the lines b and c of the clean view a, b, c, from the
\* current address 0
C30_Witness ==
    /\ hist.cmd = "2,3j"
    /\ hist.e = Nil
    /\ ~hist.pre.dirty
    /\ hist.pre.addr = 0
    /\ Contents = <<"a", "bc">>
    /\ file[1] = 0
    /\ dirty
    /\ addr = 1

\* C31: when w has written the whole view to a file F, to the current file
\* or to the file of its suffix, and the next line is e F or E F, that line
\* succeeds and the line contents of the new buffer are, in order, those of
\* the view w wrote; the dirty flag is not set.
C31_WriteThenEdit ==
    [][\A F \in {"f", "g"} :
          (/\ hist.byte = "w"
           /\ hist.full
           /\ hist.e = Nil
           /\ \/ hist.cmd = "w " \o F
              \/ hist.cmd = "w" /\ state.fileName = F
           /\ hist'.cmd \in {"e " \o F, "E " \o F}) =>
              /\ hist'.e = Nil
              /\ Contents' = Contents
              /\ ~dirty']_vars

\* C32: f without a suffix prints the current file name and leaves it as it
\* is; f g makes g the current file name; in both cases nothing else of the
\* session and nothing of the buffer and of the files changes.
C32_FileName ==
    [][/\ hist'.cmd = "f" =>
            /\ hist'.e = Nil
            /\ out' = <<state.fileName>>
            /\ state' = state
            /\ UNCHANGED <<buffer, file, dirty, addr, marks, cutBuf, fs>>
       /\ hist'.cmd = "f g" =>
            /\ hist'.e = Nil
            /\ state' = [state EXCEPT !.fileName = "g"]
            /\ UNCHANGED <<buffer, file, dirty, addr, marks, cutBuf, fs>>]_vars

\* C33: when the editor was started with the name f and no file f exists,
\* with or without -s, the name is kept and the first command line (of p, n,
\* =, #, h, d, a, ka, j, u and the empty line) is processed against an empty
\* buffer: the editor is running afterwards, and the line succeeded or its
\* error was recorded.
C33_MissingFile ==
    (/\ steps = 1
     /\ DOMAIN fs = {}
     /\ state.fileName = "f"
     /\ hist.cmd \in {"", "p", "n", "=", "#", "h", "d", "a", "ka", "j", "u"}) =>
        /\ exit = "running"
        /\ ~isNil
        /\ Len(file) = 0 \/ hist.cmd = "a"
        /\ hist.e = Nil \/ state.lastErr = hist.e

\* C34: a command line that returns an error, from its address list or from
\* its handler, leaves the view, the texts of its lines, the marks and the
\* dirty flag as they were before the line was read; the current address may
\* have moved.
C34_ErrorKeepsBuffer ==
    (steps > 0 /\ hist.e \notin {Nil, Panic} /\ ~isNil /\ exit = "running") =>
        /\ file = hist.pre.file
        /\ Contents = OldContents
        /\ marks = hist.pre.marks
        /\ dirty = hist.pre.dirty

\* an m was refused for a destination inside its range after it had moved
\* the current address, on a buffer that an earlier line had changed
C34_Witness ==
    /\ hist.byte = "m"
    /\ hist.disp
    /\ hist.e = "cannot move lines to within their own range"
    /\ addr # hist.pre.addr
    /\ file = hist.pre.file
    /\ dirty

\* C35: after a successful s, m or j, a mark that was on a line the command
\* rewrote (a line of the range of s that matches the pattern), relocated
\* (a line of the range of m) or merged (a line of the range of j, of two
\* lines or more) fails with "mark was cleared", and a mark that was on any
\* other line of the view resolves to that line, the same pool line, still.
C35_FreshIndices ==
    LET pf == hist.pre.file
        Pos(c) == GetMark([file |-> pf, marks |-> hist.pre.marks], c)
        Pat == Ch(hist.cmd, IndexOf(hist.cmd, "/") + 1)
        Touched(p) ==
            /\ p \in hist.r[1]..hist.r[2]
            /\ hist.byte = "s" => Contains(OldContents[p + 1], Pat)
            /\ hist.byte = "j" => hist.r[1] < hist.r[2]
        Now(c) == GetMark(FB, c)
    IN  (hist.mut /\ hist.byte \in {"s", "m", "j"} /\ ~isNil) =>
            \A c \in MarkNames :
                Pos(c).e = Nil =>
                    IF Touched(Pos(c).l)
                    THEN Now(c).e = "mark was cleared"
                    ELSE /\ Now(c).e = Nil
                         /\ At(file, Now(c).l) = hist.pre.marks[c]

\* C36: c and w with the single address x take the range from the current
\* address to x, not the line x alone: xc, given at least one input line,
\* replaces the lines from the current address to x by its input lines, and
\* x w g writes those lines to g; both fail with "address out of order" when
\* the current address is greater than x (and with "line is out of bounds"
\* when x is past the last line).  c whose first input line is "." returns
\* before it takes its range and changes nothing.
C36_SingleAddressRange ==
    LET N == Len(hist.pre.file)
        cur == hist.pre.addr
        Is(x) ==
            IF hist.byte = "c" /\ hist.nbuf = <<>>
            THEN hist.e = Nil /\ Unchanged
            ELSE IF cur > x THEN hist.e = "address out of order" /\ Unchanged
            ELSE IF x >= N THEN hist.e = ErrOOB /\ Unchanged
            ELSE /\ hist.e = Nil
                 /\ hist.byte = "c" =>
                       Contents = SubSeq(OldContents, 1, cur) \o hist.nbuf
                                      \o SubSeq(OldContents, x + 2, N)
                 /\ hist.byte = "w" =>
                       /\ fs["g"] = SubSeq(OldContents, cur + 1, x + 1)
                       /\ Contents = OldContents
    IN  (steps > 0 /\ ~isNil /\ exit = "running") =>
            /\ hist.cmd \in {"1c", "1w g"} => Is(0)
            /\ hist.cmd = "2w g" => Is(1)
            /\ hist.cmd = "3c" => Is(2)

\* 3c, read with the current address on the first of the lines a, b, c, has
\* replaced all three by its input lines
C36_Witness ==
    /\ hist.cmd = "3c"
    /\ hist.pre.addr = 0
    /\ OldContents = <<"a", "b", "c">>
    /\ hist.e = Nil
    /\ Contents = <<"hello", "world">>

====
